---- MODULE Spec2Model ----
(***************************************************************************)
(* Wuweiqi: the rule engine (rules.js: catalog, selectRules, isMoveLegal)  *)
(* and the Game component's placement state machine (Game.jsx).            *)
(*                                                                         *)
(* Three groups of variables, one per part of the program:                 *)
(*   - the Game component's React state (mode .. moveHistory);             *)
(*   - one call of selectRules in progress (targetMin .. selPc);           *)
(*   - one call of isMoveLegal (qRow .. qDone).                            *)
(* Each specification drives one group and leaves the others idle.         *)
(***************************************************************************)
EXTENDS Integers, Sequences, FiniteSets, TLC

VARIABLES
    \* ---- Game component state (useState hooks of Game)
    mode,              \* prop: "solo" | "duel"
    effectPending,     \* TRUE until the mount effect (selectRules) has run
    board,             \* board[row][col]: Null or [orientation |-> 0..3]
    rules,             \* sequence of rule ids (the active rule set)
    rotationCount,     \* cumulative rotation count of the preview
    pendingPlacement,  \* Null or [row, col, rotationCount]
    currentPlayer,     \* 1 or 2
    player1Stones, player2Stones,
    player1Moves, player2Moves,
    gameOver,
    winner,            \* NoWinner (null) or 1 or 2
    showRules,
    moveHistory,       \* sequence of [row, col, orientation, player, legal]
    \* ---- one call of selectRules(targetMin, targetMax, maxAttempts)
    targetMin, targetMax, maxAttempts,
    attempt,           \* the loop variable
    selPc,             \* "loop" | "accepted" | "fallback"
    returned,          \* Null until the call returns, then the rule ids
    \* ---- one call of isMoveLegal(row, col, orientation, rules, board)
    qRow, qCol, qOrientation, qRules, qBoard,
    qDone, qLegal,
    \* ---- one call of getHint(rules, hintLevel)
    hRules, hLevel,
    hRuleDraw,         \* the index drawn for the rule (0 before the call)
    hReturned,         \* Null until the call ends, then its outcome
    \* ---- the hint state of the Game component that offers hints
    hintLevel,         \* 0..3
    currentHint,       \* Null or the text shown in the hint box
    \* ---- the browser console
    consoleOutput,     \* the lines written with console.log
    \* ---- the feedback marker of the Game and its timers
    lastMove,          \* Null or [row, col, orientation, result]
    timers,            \* the pending setTimeout callbacks, oldest first
    \* ---- the drag state of the Board (dragState.current)
    isDragging, startX, accumulatedDelta,
    rotations          \* the steps the last drag handler passed on (0: none)

gameVars == <<mode, effectPending, board, rules, rotationCount, pendingPlacement,
              currentPlayer, player1Stones, player2Stones, player1Moves,
              player2Moves, gameOver, winner, showRules, moveHistory>>
selVars  == <<targetMin, targetMax, maxAttempts, attempt, selPc, returned>>
qVars    == <<qRow, qCol, qOrientation, qRules, qBoard, qDone, qLegal>>
hVars    == <<hRules, hLevel, hRuleDraw, hReturned>>
hintVars == <<hintLevel, currentHint>>
ioVars   == <<consoleOutput>>
fbVars   == <<lastMove, timers>>
dragVars == <<isDragging, startX, accumulatedDelta, rotations>>
vars     == <<gameVars, selVars, qVars, hVars, hintVars, ioVars, fbVars,
              dragVars>>

-----------------------------------------------------------------------------
(* Program constants *)

BOARD_SIZE == 9
SOLO_STONES == 13
DUEL_STONES == 9

\* JavaScript null (an empty cell, no pending placement, nothing returned yet)
Null == <<>>
\* winner === null
NoWinner == 0

Last8 == BOARD_SIZE - 1
Rows == 0..Last8
Cols == 0..Last8
Orientations == 0..3

createEmptyBoard == [r \in Rows |-> [c \in Cols |-> Null]]

-----------------------------------------------------------------------------
(* rules.js: helpers *)

isEdge(row, col) == row = 0 \/ row = 8 \/ col = 0 \/ col = 8

isCorner(row, col) == (row = 0 \/ row = 8) /\ (col = 0 \/ col = 8)

Abs(x) == IF x < 0 THEN -x ELSE x

getDistance(r1, c1, r2, c2) == Abs(r1 - r2) + Abs(c1 - c2)

getNeighbors(row, col) ==
    (IF row > 0 THEN {<<row - 1, col>>} ELSE {}) \cup
    (IF row < 8 THEN {<<row + 1, col>>} ELSE {}) \cup
    (IF col > 0 THEN {<<row, col - 1>>} ELSE {}) \cup
    (IF col < 8 THEN {<<row, col + 1>>} ELSE {})

getDiagonalNeighbors(row, col) ==
    (IF row > 0 /\ col > 0 THEN {<<row - 1, col - 1>>} ELSE {}) \cup
    (IF row > 0 /\ col < 8 THEN {<<row - 1, col + 1>>} ELSE {}) \cup
    (IF row < 8 /\ col > 0 THEN {<<row + 1, col - 1>>} ELSE {}) \cup
    (IF row < 8 /\ col < 8 THEN {<<row + 1, col + 1>>} ELSE {})

\* the star_points rule's own list
stars == {<<2,2>>, <<2,4>>, <<2,6>>, <<4,2>>, <<4,4>>, <<4,6>>,
          <<6,2>>, <<6,4>>, <<6,6>>}

-----------------------------------------------------------------------------
(* rules.js: the catalog.  A rule is identified by its id; check(id, ...)  *)
(* is that rule's check function: TRUE when the placement is ILLEGAL.      *)

ALL_RULES ==
    << "even_row", "odd_row", "even_col", "odd_col",
       "edge_forbidden", "center_forbidden", "corner_forbidden",
       "top_half", "bottom_half", "left_half", "right_half",
       "main_diagonal", "anti_diagonal",
       "north_forbidden", "east_forbidden", "south_forbidden", "west_forbidden",
       "adjacent_forbidden", "isolated_forbidden", "diagonal_neighbor_forbidden",
       "sum_even", "sum_odd", "product_even",
       "star_points", "center_point",
       "near_center", "far_from_center",
       "middle_row", "middle_col",
       "north_in_north", "east_on_east", "edge_orientation" >>

RuleIds == {ALL_RULES[i] : i \in 1..Len(ALL_RULES)}

\* the name of the catalog's rules
name(id) ==
    CASE id = "even_row" -> "Even Row Forbidden"
      [] id = "odd_row" -> "Odd Row Forbidden"
      [] id = "even_col" -> "Even Column Forbidden"
      [] id = "odd_col" -> "Odd Column Forbidden"
      [] id = "edge_forbidden" -> "Edge Forbidden"
      [] id = "center_forbidden" -> "Center Forbidden"
      [] id = "corner_forbidden" -> "Corner Forbidden"
      [] id = "top_half" -> "Top Half Forbidden"
      [] id = "bottom_half" -> "Bottom Half Forbidden"
      [] id = "left_half" -> "Left Half Forbidden"
      [] id = "right_half" -> "Right Half Forbidden"
      [] id = "main_diagonal" -> "Main Diagonal Forbidden"
      [] id = "anti_diagonal" -> "Anti-Diagonal Forbidden"
      [] id = "north_forbidden" -> "North Forbidden"
      [] id = "east_forbidden" -> "East Forbidden"
      [] id = "south_forbidden" -> "South Forbidden"
      [] id = "west_forbidden" -> "West Forbidden"
      [] id = "adjacent_forbidden" -> "Adjacent Forbidden"
      [] id = "isolated_forbidden" -> "Isolation Forbidden"
      [] id = "diagonal_neighbor_forbidden" -> "Diagonal Neighbor Forbidden"
      [] id = "sum_even" -> "Even Sum Forbidden"
      [] id = "sum_odd" -> "Odd Sum Forbidden"
      [] id = "product_even" -> "Even Product Forbidden"
      [] id = "star_points" -> "Star Points Forbidden"
      [] id = "center_point" -> "Center Point Forbidden"
      [] id = "near_center" -> "Near Center Forbidden"
      [] id = "far_from_center" -> "Far From Center Forbidden"
      [] id = "middle_row" -> "Middle Row Forbidden"
      [] id = "middle_col" -> "Middle Column Forbidden"
      [] id = "north_in_north" -> "North in North Forbidden"
      [] id = "east_on_east" -> "East on East Forbidden"
      [] id = "edge_orientation" -> "Edge Orientation Forbidden"

\* variant: the cell's stone is tested for truthiness through its
\* orientation, and North is 0
occupiedTruthyOrientation(b, r, c) ==
    b[r][c] # Null /\ b[r][c].orientation # 0

\* board[r][c] !== null
occupied(b, r, c) == b[r][c] # Null

\* variant: the first-stone exception is dropped
hasAnyStoneAlways(b) == TRUE

\* board.some(row => row.some(cell => cell !== null))
hasAnyStone(b) == \E r \in Rows : \E c \in Cols : b[r][c] # Null

check(id, row, col, orientation, b) ==
    CASE id = "even_row"         -> row % 2 = 0
      [] id = "odd_row"          -> row % 2 = 1
      [] id = "even_col"         -> col % 2 = 0
      [] id = "odd_col"          -> col % 2 = 1
      [] id = "edge_forbidden"   -> isEdge(row, col)
      [] id = "center_forbidden" -> ~isEdge(row, col)
      [] id = "corner_forbidden" -> isCorner(row, col)
      [] id = "top_half"         -> row <= 3
      [] id = "bottom_half"      -> row >= 5
      [] id = "left_half"        -> col <= 3
      [] id = "right_half"       -> col >= 5
      [] id = "main_diagonal"    -> row = col
      [] id = "anti_diagonal"    -> row + col = 8
      [] id = "north_forbidden"  -> orientation = 0
      [] id = "east_forbidden"   -> orientation = 1
      [] id = "south_forbidden"  -> orientation = 2
      [] id = "west_forbidden"   -> orientation = 3
      [] id = "adjacent_forbidden" ->
            \E n \in getNeighbors(row, col) : occupied(b, n[1], n[2])
      [] id = "isolated_forbidden" ->
            IF ~hasAnyStone(b) THEN FALSE
            ELSE ~(\E n \in getNeighbors(row, col) : occupied(b, n[1], n[2]))
      [] id = "diagonal_neighbor_forbidden" ->
            \E n \in getDiagonalNeighbors(row, col) : occupied(b, n[1], n[2])
      [] id = "sum_even"         -> (row + col) % 2 = 0
      [] id = "sum_odd"          -> (row + col) % 2 = 1
      [] id = "product_even"     -> (row * col) % 2 = 0
      [] id = "star_points"      -> \E s \in stars : s[1] = row /\ s[2] = col
      [] id = "center_point"     -> row = 4 /\ col = 4
      [] id = "near_center"      -> getDistance(row, col, 4, 4) <= 2
      [] id = "far_from_center"  -> getDistance(row, col, 4, 4) > 3
      [] id = "middle_row"       -> row = 4
      [] id = "middle_col"       -> col = 4
      [] id = "north_in_north"   -> orientation = 0 /\ row <= 3
      [] id = "east_on_east"     -> orientation = 1 /\ col >= 5
      [] id = "edge_orientation" ->
            \/ (row = 0 /\ orientation = 0)
            \/ (row = 8 /\ orientation = 2)
            \/ (col = 0 /\ orientation = 3)
            \/ (col = 8 /\ orientation = 1)

\* rules.some(f): some element of the array satisfies f
\* rules.every(f) would be \A: the difference shows on the empty array.
isMoveLegalEvery(row, col, orientation, rs, b) ==
    ~(\A i \in 1..Len(rs) : check(rs[i], row, col, orientation, b))

isMoveLegal(row, col, orientation, rs, b) ==
    ~(\E i \in 1..Len(rs) : check(rs[i], row, col, orientation, b))

-----------------------------------------------------------------------------
(* rules.js: rule selection *)

getIncompatiblePairs ==
    << <<"even_row", "odd_row">>,
       <<"even_col", "odd_col">>,
       <<"edge_forbidden", "center_forbidden">>,
       <<"top_half", "bottom_half">>,
       <<"left_half", "right_half">>,
       <<"adjacent_forbidden", "isolated_forbidden">>,
       <<"sum_even", "sum_odd">>,
       <<"near_center", "far_from_center">> >>

\* pair.includes(id)
includes(pair, id) == pair[1] = id \/ pair[2] = id

\* variant: the new rule is compared with the first accepted rule only
isCompatibleFirstOnly(ruleId, selected) ==
    ~(\E i \in 1..(IF Len(selected) > 0 THEN 1 ELSE 0) :
        \E p \in 1..Len(getIncompatiblePairs) :
            /\ includes(getIncompatiblePairs[p], ruleId)
            /\ includes(getIncompatiblePairs[p], selected[i]))

\* const isCompatible = !selected.some(existing => incompatible.some(pair => ...))
isCompatible(ruleId, selected) ==
    ~(\E i \in 1..Len(selected) :
        \E p \in 1..Len(getIncompatiblePairs) :
            /\ includes(getIncompatiblePairs[p], ruleId)
            /\ includes(getIncompatiblePairs[p], selected[i]))

\* for (const rule of shuffled) { if (selected.length >= numRules) break; ... }
RECURSIVE pickRules(_, _, _)
pickRules(shuffled, numRules, selected) ==
    IF shuffled = <<>> \/ Len(selected) >= numRules
    THEN selected
    ELSE pickRules(Tail(shuffled), numRules,
                   IF isCompatible(Head(shuffled), selected)
                   THEN Append(selected, Head(shuffled))
                   ELSE selected)

\* const isIllegal = rules.some(rule => rule.check(row, col, orientation,
\* emptyBoard))
isIllegal(rs, row, col, orientation) ==
    \E i \in 1..Len(rs) :
        check(rs[i], row, col, orientation, createEmptyBoard)

\* variant: the orientation loop has no break
RECURSIVE countCellNoBreak(_, _, _, _)
countCellNoBreak(rs, row, col, orientation) ==
    IF orientation \notin Orientations THEN 0
    ELSE (IF ~isIllegal(rs, row, col, orientation) THEN 1 ELSE 0)
         + countCellNoBreak(rs, row, col, orientation + 1)

\* what the orientation loop, from the given orientation on, adds to
\* legalCount: 1 at the first orientation that no rule flags, then break
RECURSIVE countCell(_, _, _, _)
countCell(rs, row, col, orientation) ==
    IF orientation \notin Orientations THEN 0
    ELSE IF ~isIllegal(rs, row, col, orientation) THEN 1
    ELSE countCell(rs, row, col, orientation + 1)

\* what the column loop of a row adds to legalCount from column col on
RECURSIVE countRow(_, _, _)
countRow(rs, row, col) ==
    IF col >= BOARD_SIZE THEN 0
    ELSE countCell(rs, row, col, 0) + countRow(rs, row, col + 1)

\* what the row loop adds to legalCount from the given row on
RECURSIVE countRows(_, _)
countRows(rs, row) ==
    IF row >= BOARD_SIZE THEN 0
    ELSE countRow(rs, row, 0) + countRows(rs, row + 1)

\* legalCount at the end of the loops
calculateLegalCount(rs) == countRows(rs, 0)

\* A fraction num/den (den > 0) stands for the JavaScript number num/den.
Frac(n, d) == [num |-> n, den |-> d]
Geq(a, b) == a.num * b.den >= b.num * a.den
Leq(a, b) == a.num * b.den <= b.num * a.den

\* return legalCount / (BOARD_SIZE * BOARD_SIZE)
calculateLegalPercentage(rs) ==
    Frac(calculateLegalCount(rs), BOARD_SIZE * BOARD_SIZE)

\* variant: only the lower end of the band is tested
inTargetRangeMinOnly(legalPct, tMin, tMax) == Geq(legalPct, tMin)

\* if (legalPct >= targetMin && legalPct <= targetMax)
inTargetRange(legalPct, tMin, tMax) ==
    Geq(legalPct, tMin) /\ Leq(legalPct, tMax)

\* variant: attempt <= maxAttempts
loopContinuesInclusive(att, maxAtt) == att <= maxAtt

\* the for loop's condition: attempt < maxAttempts
loopContinues(att, maxAtt) == att < maxAtt

\* variant: the rule found is the other parity rule
fallbackRulesSumOdd == << "sum_odd" >>

\* variant: the fallback is the empty set
fallbackRulesEmpty == << >>

\* return [ALL_RULES.find(r => r.id === 'sum_even')]
fallbackRules == << "sum_even" >>

\* const numRules = Math.floor(Math.random() * 4) + 1
NumRulesChoices == 1..4

\* One candidate draw of the loop body: the rule set gathered from a
\* shuffled catalog
candidate(shuffled, numRules) == pickRules(shuffled, numRules, <<>>)

-----------------------------------------------------------------------------
(* Idle values of the three variable groups *)

initialStones(m) == IF m = "solo" THEN SOLO_STONES ELSE DUEL_STONES

GameIdle ==
    /\ mode = "solo"
    /\ effectPending = TRUE
    /\ board = createEmptyBoard
    /\ rules = <<>>
    /\ rotationCount = 0
    /\ pendingPlacement = Null
    /\ currentPlayer = 1
    /\ player1Stones = initialStones("solo")
    /\ player2Stones = initialStones("solo")
    /\ player1Moves = 0
    /\ player2Moves = 0
    /\ gameOver = FALSE
    /\ winner = NoWinner
    /\ showRules = FALSE
    /\ moveHistory = <<>>

SelIdle ==
    /\ targetMin = Frac(1, 4)
    /\ targetMax = Frac(1, 2)
    /\ maxAttempts = 0
    /\ attempt = 0
    /\ selPc = "idle"
    /\ returned = Null

QIdle ==
    /\ qRow = 0
    /\ qCol = 0
    /\ qOrientation = 0
    /\ qRules = <<>>
    /\ qBoard = createEmptyBoard
    /\ qDone = FALSE
    /\ qLegal = FALSE

HIdle ==
    /\ hRules = <<>>
    /\ hLevel = 1
    /\ hRuleDraw = 0
    /\ hReturned = Null

HintIdle ==
    /\ hintLevel = 0
    /\ currentHint = Null

IoIdle == consoleOutput = <<>>

FbIdle == lastMove = Null /\ timers = <<>>

DragIdle ==
    /\ isDragging = FALSE /\ startX = 0 /\ accumulatedDelta = 0
    /\ rotations = 0

-----------------------------------------------------------------------------
(* SpecSelect: one call selectRules(targetMin, targetMax, maxAttempts).    *)
(* The random draws are the inputs: numRules, and the shuffled catalog.    *)
(* A shuffle permutes the whole catalog; the ones enumerated here bring    *)
(* the first ShuffleFront rules of FrontOrder to the front in every order  *)
(* and leave the others behind them in catalog order.                      *)

ShuffleFront == 4
MaxAttemptsArg == 2

FrontOrder ==
    << "sum_even", "sum_odd", "isolated_forbidden", "north_forbidden",
       "adjacent_forbidden", "even_row", "odd_row" >>

FrontRules == { FrontOrder[i] : i \in 1..ShuffleFront }

RestOfCatalog == SelectSeq(ALL_RULES, LAMBDA id : id \notin FrontRules)

Shuffles ==
    { f \o RestOfCatalog :
        f \in { g \in [1..ShuffleFront -> FrontRules] :
                  \A i, j \in 1..ShuffleFront : i # j => g[i] # g[j] } }

\* (targetMin, targetMax): the defaults 0.25..0.5, everything, an empty
\* band (min > max), and the upper half
TargetBands ==
    { <<Frac(1, 4), Frac(1, 2)>>, <<Frac(0, 1), Frac(1, 1)>>,
      <<Frac(1, 2), Frac(1, 4)>>, <<Frac(1, 2), Frac(1, 1)>> }

\* what the draws of an iteration (numRules, the shuffle) can gather
Candidates ==
    { candidate(shuffled, numRules) :
        shuffled \in Shuffles, numRules \in NumRulesChoices }

MaxAttemptsChoices == (-1)..MaxAttemptsArg

InitSelect ==
    /\ GameIdle /\ QIdle /\ HIdle /\ HintIdle /\ IoIdle /\ FbIdle /\ DragIdle
    /\ \E band \in TargetBands :
          targetMin = band[1] /\ targetMax = band[2]
    /\ maxAttempts \in MaxAttemptsChoices
    /\ attempt = 0
    /\ selPc = "loop"
    /\ returned = Null

\* One iteration of the for loop: draw, gather, measure, and return the
\* candidate when its coverage is in the band.
SelectAttempt ==
    /\ selPc = "loop"
    /\ loopContinues(attempt, maxAttempts)
    /\ \E selected \in Candidates :
          LET legalPct == calculateLegalPercentage(selected)
          IN  IF inTargetRange(legalPct, targetMin, targetMax)
              THEN /\ selPc' = "accepted"
                   /\ returned' = selected
                   /\ attempt' = attempt
              ELSE /\ attempt' = attempt + 1
                   /\ UNCHANGED <<selPc, returned>>
    /\ UNCHANGED <<targetMin, targetMax, maxAttempts>>
    /\ UNCHANGED <<gameVars, qVars, hVars, hintVars, ioVars, fbVars, dragVars>>

\* The loop is over without a return: the fallback.
SelectFallback ==
    /\ selPc = "loop"
    /\ ~loopContinues(attempt, maxAttempts)
    /\ selPc' = "fallback"
    /\ returned' = fallbackRules
    /\ UNCHANGED <<targetMin, targetMax, maxAttempts, attempt>>
    /\ UNCHANGED <<gameVars, qVars, hVars, hintVars, ioVars, fbVars, dragVars>>

NextSelect == SelectAttempt \/ SelectFallback

SpecSelect == InitSelect /\ [][NextSelect]_vars

\* The call runs to completion (synchronous code, no suspension point).
FairSpecSelect == SpecSelect /\ WF_vars(NextSelect)

-----------------------------------------------------------------------------
(* SpecLegal: one call isMoveLegal(qRow, qCol, qOrientation, qRules,       *)
(* qBoard), its arguments drawn from bounded sets.                         *)

MaxBoardStones == 1

QueryStoneCells == { <<0, 1>>, <<1, 1>>, <<4, 4>> }

\* the board holding a stone (pointing North) on each cell of the set
boardWith(cells) ==
    [r \in Rows |-> [c \in Cols |->
        IF <<r, c>> \in cells THEN [orientation |-> 0] ELSE Null]]

QueryBoards ==
    { boardWith(cs) : cs \in { x \in SUBSET QueryStoneCells :
                                  Cardinality(x) <= MaxBoardStones } }

PairHeads == { "sum_even", "isolated_forbidden", "north_forbidden" }

\* the empty rule set, every single rule, and pairs
QueryRuleSets ==
    { <<>> } \cup { <<a>> : a \in RuleIds }
             \cup { <<a, b>> : a \in PairHeads, b \in RuleIds }

InitLegal ==
    /\ GameIdle /\ SelIdle /\ HIdle /\ HintIdle /\ IoIdle /\ FbIdle /\ DragIdle
    /\ qRow \in Rows
    /\ qCol \in Cols
    /\ qOrientation \in Orientations
    /\ qRules \in QueryRuleSets
    /\ qBoard \in QueryBoards
    /\ qDone = FALSE
    /\ qLegal = FALSE

EvaluateLegal ==
    /\ ~qDone
    /\ qDone' = TRUE
    /\ qLegal' = isMoveLegal(qRow, qCol, qOrientation, qRules, qBoard)
    /\ UNCHANGED <<qRow, qCol, qOrientation, qRules, qBoard>>
    /\ UNCHANGED <<gameVars, selVars, hVars, hintVars, ioVars, fbVars, dragVars>>

NextLegal == EvaluateLegal

SpecLegal == InitLegal /\ [][NextLegal]_vars

\* C1: isMoveLegal returns false exactly when at least one rule of the
\* given rule set flags the placement (its check is true for the row,
\* column, orientation and board), and true otherwise; with the empty rule
\* set every placement is legal.
C1_IsMoveLegalIffNoRuleFlags ==
    qDone =>
        /\ (qLegal = FALSE) <=>
              (\E id \in { qRules[i] : i \in 1..Len(qRules) } :
                  check(id, qRow, qCol, qOrientation, qBoard))
        /\ (qRules = <<>> => qLegal = TRUE)

\* an evaluated call that a board-dependent rule alone makes illegal, and
\* (separately reachable) the empty rule set are both among the cases
C1_Witness ==
    /\ qDone
    /\ qLegal = FALSE
    /\ qRules = << "sum_even", "adjacent_forbidden" >>
    /\ ~check("sum_even", qRow, qCol, qOrientation, qBoard)
    /\ check("adjacent_forbidden", qRow, qCol, qOrientation, qBoard)

-----------------------------------------------------------------------------
(* Game.jsx: the Game component.  A handler is an operator from the state  *)
(* its render closed over to the state after the batched updates; an       *)
(* action applies one handler to the current state.                        *)
(* Not part of the state here: lastMove and its timer, failedMoves,        *)
(* showFailedMoves, lineCoords (display only, read by no handler) and the  *)
(* move record's timestamp (never read).  The line the mount effect writes *)
(* to the console is followed in SpecMount.                                *)

St ==
    [ mode |-> mode, effectPending |-> effectPending, board |-> board,
      rules |-> rules, rotationCount |-> rotationCount,
      pendingPlacement |-> pendingPlacement, currentPlayer |-> currentPlayer,
      player1Stones |-> player1Stones, player2Stones |-> player2Stones,
      player1Moves |-> player1Moves, player2Moves |-> player2Moves,
      gameOver |-> gameOver, winner |-> winner, showRules |-> showRules,
      moveHistory |-> moveHistory ]

\* the state is s
Is(s) ==
    /\ mode = s.mode
    /\ effectPending = s.effectPending
    /\ board = s.board
    /\ rules = s.rules
    /\ rotationCount = s.rotationCount
    /\ pendingPlacement = s.pendingPlacement
    /\ currentPlayer = s.currentPlayer
    /\ player1Stones = s.player1Stones
    /\ player2Stones = s.player2Stones
    /\ player1Moves = s.player1Moves
    /\ player2Moves = s.player2Moves
    /\ gameOver = s.gameOver
    /\ winner = s.winner
    /\ showRules = s.showRules
    /\ moveHistory = s.moveHistory

\* the next game state is s
BecomesGame(s) ==
    /\ mode' = s.mode
    /\ effectPending' = s.effectPending
    /\ board' = s.board
    /\ rules' = s.rules
    /\ rotationCount' = s.rotationCount
    /\ pendingPlacement' = s.pendingPlacement
    /\ currentPlayer' = s.currentPlayer
    /\ player1Stones' = s.player1Stones
    /\ player2Stones' = s.player2Stones
    /\ player1Moves' = s.player1Moves
    /\ player2Moves' = s.player2Moves
    /\ gameOver' = s.gameOver
    /\ winner' = s.winner
    /\ showRules' = s.showRules
    /\ moveHistory' = s.moveHistory

\* the next state is s, nothing is written to the console
Becomes(s) ==
    /\ BecomesGame(s)
    /\ UNCHANGED <<selVars, qVars, hVars, hintVars, ioVars, fbVars, dragVars>>

\* JavaScript a % b for b > 0: the result takes the sign of a
jsRem(a, b) == IF a >= 0 THEN a % b ELSE -((-a) % b)

\* variant: only the first remainder is taken
orientationOfRemainderOnly(rc) == jsRem(rc, 4)

\* ((rotationCount % 4) + 4) % 4
orientationOf(rc) == jsRem(jsRem(rc, 4) + 4, 4)

\* the useState initial values of Game({ mode })
constructed(m) ==
    [ mode |-> m, effectPending |-> TRUE, board |-> createEmptyBoard,
      rules |-> <<>>, rotationCount |-> 0, pendingPlacement |-> Null,
      currentPlayer |-> 1,
      player1Stones |-> initialStones(m), player2Stones |-> initialStones(m),
      player1Moves |-> 0, player2Moves |-> 0,
      gameOver |-> FALSE, winner |-> NoWinner, showRules |-> FALSE,
      moveHistory |-> <<>> ]

\* console.log('Hidden rules:', selectedRules.map(r => r.name)): the line
logHiddenRules(selectedRules) ==
    << "Hidden rules:",
       [i \in 1..Len(selectedRules) |-> name(selectedRules[i])] >>

\* variant: the effect has no dependency list and runs after every render
initializeGameEveryRender(s, selectedRules) ==
    [s EXCEPT !.rules = selectedRules]

\* useEffect(() => { setRules(selectRules(0.25, 0.5)) }, [])
initializeGame(s, selectedRules) ==
    [s EXCEPT !.rules = selectedRules, !.effectPending = FALSE]

rotateOrientation(s, direction) ==
    [s EXCEPT !.rotationCount = @ + direction]

rotatePending(s, direction) ==
    IF s.pendingPlacement = Null THEN s
    ELSE [s EXCEPT !.pendingPlacement.rotationCount = @ + direction]

\* variant: cancelling passes the turn
cancelPlacementPassingTurn(s) ==
    [s EXCEPT !.pendingPlacement = Null,
              !.currentPlayer = IF @ = 1 THEN 2 ELSE 1]

cancelPlacement(s) == [s EXCEPT !.pendingPlacement = Null]

getCurrentStones(s) ==
    IF s.currentPlayer = 1 THEN s.player1Stones ELSE s.player2Stones

\* variant: the occupied-cell test is missing
handleCellClickNoOccupiedTest(s, row, col) ==
    IF s.gameOver THEN s
    ELSE IF getCurrentStones(s) <= 0 THEN s
    ELSE IF s.pendingPlacement # Null
         THEN [s EXCEPT !.pendingPlacement.row = row,
                        !.pendingPlacement.col = col]
         ELSE [s EXCEPT !.pendingPlacement =
                  [row |-> row, col |-> col, rotationCount |-> s.rotationCount]]

\* variant: the game-over test is missing
handleCellClickNoGameOverTest(s, row, col) ==
    IF s.board[row][col] # Null THEN s
    ELSE IF getCurrentStones(s) <= 0 THEN s
    ELSE IF s.pendingPlacement # Null
         THEN [s EXCEPT !.pendingPlacement.row = row,
                        !.pendingPlacement.col = col]
         ELSE [s EXCEPT !.pendingPlacement =
                  [row |-> row, col |-> col, rotationCount |-> s.rotationCount]]

\* variant: only the occupied-cell test is made
handleCellClickOccupiedTestOnly(s, row, col) ==
    IF s.board[row][col] # Null THEN s
    ELSE IF s.pendingPlacement # Null
         THEN [s EXCEPT !.pendingPlacement.row = row,
                        !.pendingPlacement.col = col]
         ELSE [s EXCEPT !.pendingPlacement =
                  [row |-> row, col |-> col, rotationCount |-> s.rotationCount]]

handleCellClick(s, row, col) ==
    IF s.gameOver \/ s.board[row][col] # Null THEN s
    ELSE IF getCurrentStones(s) <= 0 THEN s
    ELSE IF s.pendingPlacement # Null
         THEN [s EXCEPT !.pendingPlacement.row = row,
                        !.pendingPlacement.col = col]
         ELSE [s EXCEPT !.pendingPlacement =
                  [row |-> row, col |-> col, rotationCount |-> s.rotationCount]]

\* variant: the new board holds the new stone only
placeStoneAlone(b, row, col, o) ==
    [ri \in Rows |-> [ci \in Cols |->
        IF ri = row /\ ci = col THEN [orientation |-> o] ELSE Null]]

\* board.map((r, ri) => r.map((c, ci) => ri === row && ci === col ? {...} : c))
placeStone(b, row, col, o) ==
    [ri \in Rows |-> [ci \in Cols |->
        IF ri = row /\ ci = col THEN [orientation |-> o] ELSE b[ri][ci]]]

\* variant: newStones < 0
winReachedBelowZero(newStones) == newStones < 0

\* if (newStones === 0)
winReached(newStones) == newStones = 0

\* if (mode === 'duel' && !gameOver), gameOver being the value the handler
\* closed over
switchAfterLegal(m, over) == m = "duel" /\ ~over

\* variant: the mode is not tested
switchAfterIllegalAnyMode(m) == TRUE

\* variant: an illegal attempt does not pass the turn
switchAfterIllegalNever(m) == FALSE

\* if (mode === 'duel')
switchAfterIllegal(m) == m = "duel"

\* (p) => (p === 1 ? 2 : 1)
otherPlayer(p) == IF p = 1 THEN 2 ELSE 1

\* variant: a legal placement spends two stones
spendStoneTwo(stones) == stones - 2

\* const newStones = playerNStones - 1
spendStone(stones) == stones - 1

\* variant: the new record is put in front of the log
appendMoveFirst(prev, move) == <<move>> \o prev

\* setMoveHistory((prev) => [...prev, move])
appendMove(prev, move) == Append(prev, move)

\* variant: an attempt counts twice
countMoveTwice(m) == m + 2

\* setPlayerNMoves((m) => m + 1)
countMove(m) == m + 1

\* variant: the confirmed placement stays pending
pendingAfterConfirmKept(prev) == prev

\* setPendingPlacement(null), the last update of confirmPlacement
pendingAfterConfirm(prev) == Null

confirmPlacement(s) ==
    IF s.pendingPlacement = Null THEN s
    ELSE
    LET row == s.pendingPlacement.row
        col == s.pendingPlacement.col
        placementOrientation == orientationOf(s.pendingPlacement.rotationCount)
        legal == isMoveLegal(row, col, placementOrientation, s.rules, s.board)
        move == [ row |-> row, col |-> col, orientation |-> placementOrientation,
                  player |-> s.currentPlayer, legal |-> legal ]
        \* setMoveHistory(prev => [...prev, move]); setPendingPlacement(null)
        t == [s EXCEPT !.moveHistory = appendMove(@, move),
                       !.pendingPlacement = pendingAfterConfirm(@)]
    IN  IF legal
        THEN LET u == [t EXCEPT !.board =
                          placeStone(s.board, row, col, placementOrientation)]
                 v == IF s.currentPlayer = 1
                      THEN LET newStones == spendStone(s.player1Stones)
                           IN  [u EXCEPT
                                 !.player1Stones = newStones,
                                 !.player1Moves = countMove(@),
                                 !.gameOver = IF winReached(newStones) THEN TRUE ELSE @,
                                 !.winner = IF winReached(newStones) THEN 1 ELSE @]
                      ELSE LET newStones == spendStone(s.player2Stones)
                           IN  [u EXCEPT
                                 !.player2Stones = newStones,
                                 !.player2Moves = countMove(@),
                                 !.gameOver = IF winReached(newStones) THEN TRUE ELSE @,
                                 !.winner = IF winReached(newStones) THEN 2 ELSE @]
             IN  IF switchAfterLegal(s.mode, s.gameOver)
                 THEN [v EXCEPT !.currentPlayer = otherPlayer(@)]
                 ELSE v
        ELSE LET v == IF s.currentPlayer = 1
                      THEN [t EXCEPT !.player1Moves = countMove(@)]
                      ELSE [t EXCEPT !.player2Moves = countMove(@)]
             IN  IF switchAfterIllegal(s.mode)
                 THEN [v EXCEPT !.currentPlayer = otherPlayer(@)]
                 ELSE v

\* variant: the move log is not cleared
resetGameKeepingLog(s, selectedRules) ==
    [s EXCEPT
        !.board = createEmptyBoard,
        !.rules = selectedRules,
        !.rotationCount = 0,
        !.pendingPlacement = Null,
        !.currentPlayer = 1,
        !.player1Stones = initialStones(s.mode),
        !.player2Stones = initialStones(s.mode),
        !.player1Moves = 0,
        !.player2Moves = 0,
        !.gameOver = FALSE,
        !.winner = NoWinner,
        !.showRules = FALSE]

resetGame(s, selectedRules) ==
    [s EXCEPT
        !.board = createEmptyBoard,
        !.rules = selectedRules,
        !.rotationCount = 0,
        !.pendingPlacement = Null,
        !.currentPlayer = 1,
        !.player1Stones = initialStones(s.mode),
        !.player2Stones = initialStones(s.mode),
        !.player1Moves = 0,
        !.player2Moves = 0,
        !.gameOver = FALSE,
        !.winner = NoWinner,
        !.showRules = FALSE,
        !.moveHistory = <<>>]

\* Board's own click handler of a cell (it receives disabled = gameOver)
boardCellClick(s, row, col) ==
    IF s.gameOver THEN s
    ELSE IF /\ s.pendingPlacement # Null
            /\ s.pendingPlacement.row = row
            /\ s.pendingPlacement.col = col
         THEN confirmPlacement(s)
         ELSE IF s.board[row][col] = Null
              THEN handleCellClick(s, row, col)
              ELSE s

\* handleKeyDown for the keys it handles; Escape without a pending
\* placement leaves the game (onExit) and is not followed further
handleKeyDown(s, key) ==
    CASE key = "r" ->
            IF s.pendingPlacement # Null
            THEN rotatePending(s, 1)
            ELSE rotateOrientation(s, 1)
      [] key = "Escape" ->
            IF s.pendingPlacement # Null THEN cancelPlacement(s) ELSE s
      [] key = "Enter" ->
            IF s.pendingPlacement # Null THEN confirmPlacement(s) ELSE s

-----------------------------------------------------------------------------
(* Spec: the Game component under user events.                             *)

MaxRot == 1
MaxAttempts == 2
DEFAULT_MAX_ATTEMPTS == 100

Modes == { "solo", "duel" }

\* the cells the user clicks: one the fallback rule forbids, two it allows
ClickCells == { <<0, 0>>, <<0, 1>>, <<8, 7>> }

\* rotatePending(-1), rotatePending(1): the two rotate buttons
RotateSteps == { -1, 1 }

MaxDrag == 2

\* onRotatePending(rotations): a drag move emits any number of steps but 0
DragSteps == ((-MaxDrag)..MaxDrag) \ { 0 }

\* The shuffle the game's selectRules draws (numRules is free): the
\* candidates are [sum_even], [sum_even, north_forbidden],
\* [sum_even, north_forbidden, isolated_forbidden] and, with even_row
\* added, one whose coverage is below the band.
GameFront ==
    << "sum_even", "sum_odd", "north_forbidden", "isolated_forbidden" >>

GameShuffle ==
    GameFront \o
    SelectSeq(ALL_RULES,
              LAMBDA id : id \notin { GameFront[i] : i \in 1..Len(GameFront) })

GameDraws ==
    { [numRules |-> n, shuffled |-> GameShuffle] : n \in NumRulesChoices }

\* What selectRules(tMin, tMax, maxAtt) can return when every draw is one
\* of draws: the candidate of a draw in the band if the loop runs at all,
\* or the fallback if the loop does not run or some draw is out of the
\* band (every attempt can then fail).
selectRulesOutcomes(tMin, tMax, maxAtt, draws) ==
    LET inBand(d) ==
            inTargetRange(
                calculateLegalPercentage(candidate(d.shuffled, d.numRules)),
                tMin, tMax)
    IN  (IF loopContinues(0, maxAtt)
         THEN { candidate(d.shuffled, d.numRules) :
                    d \in { x \in draws : inBand(x) } }
         ELSE {})
        \cup
        (IF ~loopContinues(0, maxAtt) \/ (\E d \in draws : ~inBand(d))
         THEN { fallbackRules }
         ELSE {})

\* selectRules(0.25, 0.5)
GameRuleSets ==
    selectRulesOutcomes(Frac(1, 4), Frac(1, 2), DEFAULT_MAX_ATTEMPTS, GameDraws)

\* --- Openings.  Besides the freshly constructed component, the initial
\* states hold late-game states, each obtained by running the handlers
\* themselves: the first legal placement (rows, then columns, then
\* rotation steps) is clicked, rotated and confirmed, again and again,
\* until every player has one stone left.

LegalPlacements(s) ==
    { p \in Rows \X Cols \X Orientations :
        /\ s.board[p[1]][p[2]] = Null
        /\ isMoveLegal(p[1], p[2], orientationOf(s.rotationCount + p[3]),
                       s.rules, s.board) }

rank(p) == (p[1] * BOARD_SIZE + p[2]) * 4 + p[3]

playFirstLegal(s) ==
    IF LegalPlacements(s) = {} THEN s
    ELSE LET p == CHOOSE x \in LegalPlacements(s) :
                     \A y \in LegalPlacements(s) : rank(x) <= rank(y)
         IN  confirmPlacement(
                 rotatePending(handleCellClick(s, p[1], p[2]), p[3]))

RECURSIVE opening(_, _)
opening(s, n) == IF n = 0 THEN s ELSE opening(playFirstLegal(s), n - 1)

OpeningLength(m) ==
    IF m = "solo" THEN SOLO_STONES - 1 ELSE 2 * (DUEL_STONES - 1)

StartStates(m) ==
    { constructed(m) } \cup
    { t \in { opening(initializeGame(constructed(m), rs), OpeningLength(m)) :
                rs \in GameRuleSets } :
        Len(t.moveHistory) = OpeningLength(m) }

\* confirmed attempts of the current game after its opening
AttemptsPlayed(s) ==
    IF Len(s.moveHistory) >= OpeningLength(s.mode)
    THEN Len(s.moveHistory) - OpeningLength(s.mode)
    ELSE Len(s.moveHistory)

\* A confirmation runs in a render that follows the one that staged the
\* placement, hence after the mount effect; the model follows at most
\* MaxAttempts confirmations per game.
ConfirmAllowed ==
    /\ ~effectPending
    /\ AttemptsPlayed(St) < MaxAttempts

WithinRot(s) ==
    /\ Abs(s.rotationCount) <= MaxRot
    /\ s.pendingPlacement # Null =>
          Abs(s.pendingPlacement.rotationCount) <= MaxRot

Init ==
    /\ SelIdle /\ QIdle /\ HIdle /\ HintIdle /\ IoIdle /\ FbIdle /\ DragIdle
    /\ \E m \in Modes : \E s \in StartStates(m) : Is(s)

\* the mount effect
InitializeGame ==
    /\ effectPending
    /\ \E rs \in GameRuleSets : Becomes(initializeGame(St, rs))

\* a click on a board cell
CellClick ==
    \E cell \in ClickCells :
        /\ (/\ pendingPlacement # Null
            /\ pendingPlacement.row = cell[1]
            /\ pendingPlacement.col = cell[2]) => ConfirmAllowed
        /\ Becomes(boardCellClick(St, cell[1], cell[2]))

\* the two rotate buttons of the confirmation UI
RotatePendingClick ==
    /\ pendingPlacement # Null
    /\ \E d \in RotateSteps :
          /\ WithinRot(rotatePending(St, d))
          /\ Becomes(rotatePending(St, d))

\* a drag of the pending piece that emits rotation steps
DragRotate ==
    /\ pendingPlacement # Null
    /\ \E d \in DragSteps :
          /\ WithinRot(rotatePending(St, d))
          /\ Becomes(rotatePending(St, d))

\* the confirm button
ConfirmClick ==
    /\ pendingPlacement # Null
    /\ ConfirmAllowed
    /\ Becomes(confirmPlacement(St))

\* the cancel button, or a click outside the board area
CancelClick ==
    /\ pendingPlacement # Null
    /\ Becomes(cancelPlacement(St))

\* R, Escape, Enter
KeyDown ==
    \E key \in { "r", "Escape", "Enter" } :
        /\ (key = "Enter" /\ pendingPlacement # Null) => ConfirmAllowed
        /\ WithinRot(handleKeyDown(St, key))
        /\ Becomes(handleKeyDown(St, key))

\* New Game, Play Again
ResetClick ==
    \E rs \in GameRuleSets : Becomes(resetGame(St, rs))

\* Reveal the Hidden Rules (the button is in the game over modal)
RevealClick ==
    /\ gameOver
    /\ showRules' = TRUE
    /\ UNCHANGED <<mode, effectPending, board, rules, rotationCount,
                   pendingPlacement, currentPlayer, player1Stones,
                   player2Stones, player1Moves, player2Moves, gameOver,
                   winner, moveHistory>>
    /\ UNCHANGED <<selVars, qVars, hVars, hintVars, ioVars, fbVars, dragVars>>

Next ==
    \/ InitializeGame
    \/ CellClick
    \/ RotatePendingClick
    \/ DragRotate
    \/ ConfirmClick
    \/ CancelClick
    \/ KeyDown
    \/ ResetClick
    \/ RevealClick

Spec == Init /\ [][Next]_vars

-----------------------------------------------------------------------------
(* Claims about the Game component (Spec) *)

\* a step that appends a record to the move log: a confirmed attempt
ConfirmedStep == Len(moveHistory') = Len(moveHistory) + 1

ChangedCells ==
    { cell \in Rows \X Cols :
        board'[cell[1]][cell[2]] # board[cell[1]][cell[2]] }

LastMove == moveHistory[Len(moveHistory)]

\* C2: a confirmed placement judged legal changes exactly one board cell
\* (the target, from empty to a stone with the confirmed orientation) and
\* lowers exactly one stone counter, the acting player's, by exactly 1; a
\* confirmed placement judged illegal changes no cell and no stone counter.
C2_PlacementEffect ==
    [][ ConfirmedStep =>
          LET row == pendingPlacement.row
              col == pendingPlacement.col
              o   == orientationOf(pendingPlacement.rotationCount)
          IN  IF isMoveLegal(row, col, o, rules, board)
              THEN /\ ChangedCells = { <<row, col>> }
                   /\ board[row][col] = Null
                   /\ board'[row][col] = [orientation |-> o]
                   /\ IF currentPlayer = 1
                      THEN /\ player1Stones' = player1Stones - 1
                           /\ player2Stones' = player2Stones
                      ELSE /\ player2Stones' = player2Stones - 1
                           /\ player1Stones' = player1Stones
              ELSE /\ ChangedCells = {}
                   /\ player1Stones' = player1Stones
                   /\ player2Stones' = player2Stones
      ]_vars

\* a game in which, after the opening, an illegal attempt was followed by
\* a legal one whose stone is on the board
C2_Witness ==
    /\ AttemptsPlayed(St) = 2
    /\ LastMove.legal
    /\ ~moveHistory[Len(moveHistory) - 1].legal
    /\ board[LastMove.row][LastMove.col] = [orientation |-> LastMove.orientation]

\* C3: the game is over iff some player's stone counter is 0 (so the
\* placement that brings a counter to 0 is the one that ends the game), the
\* winner is the player whose counter is 0, and there is no winner while
\* the game is in progress.
C3_GameOverIffStonesZero ==
    /\ gameOver <=> (player1Stones = 0 \/ player2Stones = 0)
    /\ gameOver =>
          /\ winner \in {1, 2}
          /\ winner = 1 => player1Stones = 0
          /\ winner = 2 => player2Stones = 0
    /\ ~gameOver => winner = NoWinner

\* player 2 has won a duel
C3_Witness ==
    /\ mode = "duel"
    /\ gameOver
    /\ winner = 2
    /\ player2Stones = 0
    /\ player1Stones > 0

\* C4: in duel mode every confirmed attempt switches the current player,
\* except the one that ends the game, after which the current player is
\* still the player who made it.
C4_DuelAlternation ==
    [][ (mode = "duel" /\ ConfirmedStep) =>
          IF gameOver' /\ ~gameOver
          THEN currentPlayer' = currentPlayer
          ELSE currentPlayer' = otherPlayer(currentPlayer)
      ]_vars

\* C5: in solo mode the current player is always player 1 and player 2's
\* stone and move counters keep their initial values.
C5_SoloNeverSwitches ==
    mode = "solo" =>
        /\ currentPlayer = 1
        /\ player2Stones = SOLO_STONES
        /\ player2Moves = 0

\* a solo game with a legal and an illegal attempt after the opening
C5_Witness ==
    /\ mode = "solo"
    /\ AttemptsPlayed(St) = 2
    /\ moveHistory[Len(moveHistory) - 1].legal # LastMove.legal

\* n stones can be placed one after the other, each placement legal on
\* the board the earlier ones left
RECURSIVE Placeable(_, _, _)
Placeable(b, rs, n) ==
    \/ n = 0
    \/ \E p \in Rows \X Cols \X Orientations :
          /\ b[p[1]][p[2]] = Null
          /\ isMoveLegal(p[1], p[2], p[3], rs, b)
          /\ Placeable(placeStone(b, p[1], p[2], p[3]), rs, n - 1)

\* C9: every rule set that selectRules returns is playable: from the
\* new-game state some sequence of confirmed placements reaches game over,
\* that is, a player can place all initialStones stones (in a duel the
\* other player may spend the turns in between on illegal attempts).
C9_SelectedRulesPlayable ==
    (/\ ~effectPending
     /\ moveHistory = <<>>
     /\ board = createEmptyBoard)
    => Placeable(board, rules, initialStones(mode))

\* C10: a placement request on an occupied cell is rejected: the handler
\* returns the state as it was (board, counters, current player, phase,
\* move log and pending placement), so no move is recorded; and the
\* placement that confirmPlacement finds staged is never on an occupied
\* cell.
C10_OccupiedCellRejected ==
    /\ \A r \in Rows : \A c \in Cols :
          board[r][c] # Null =>
              /\ handleCellClick(St, r, c) = St
              /\ boardCellClick(St, r, c) = St
    /\ pendingPlacement # Null =>
          board[pendingPlacement.row][pendingPlacement.col] = Null

\* a game in progress, the player holding stones, a placement staged, and
\* a click cell occupied
C10_Witness ==
    /\ ~gameOver
    /\ getCurrentStones(St) > 0
    /\ pendingPlacement # Null
    /\ board[0][1] # Null

-----------------------------------------------------------------------------
(* Claims about selectRules (SpecSelect, FairSpecSelect) *)

ReturnedIds == { returned[i] : i \in 1..Len(returned) }

\* cells of the empty board with an orientation that the rule set allows
EmptyBoardCoverage(rs) ==
    Cardinality({ cell \in Rows \X Cols :
        \E o \in Orientations :
            isMoveLegal(cell[1], cell[2], o, rs, createEmptyBoard) })

\* C6: a returned rule set has empty-board coverage within
\* [targetMin, targetMax] (with the defaults: 21 to 40 of the 81 cells) or
\* is exactly the single-rule fallback.
C6_CoverageInBandOrFallback ==
    returned # Null =>
        \/ returned = << "sum_even" >>
        \/ /\ EmptyBoardCoverage(returned) * targetMin.den >= targetMin.num * 81
           /\ EmptyBoardCoverage(returned) * targetMax.den <= targetMax.num * 81
           /\ (targetMin = Frac(1, 4) /\ targetMax = Frac(1, 2)) =>
                 EmptyBoardCoverage(returned) \in 21..40

\* a three-rule candidate accepted under the default band
C6_Witness ==
    /\ selPc = "accepted"
    /\ Len(returned) = 3
    /\ targetMin = Frac(1, 4)
    /\ targetMax = Frac(1, 2)

C7_DeclaredPairs ==
    { <<"even_row", "odd_row">>, <<"even_col", "odd_col">>,
      <<"edge_forbidden", "center_forbidden">>, <<"top_half", "bottom_half">>,
      <<"left_half", "right_half">>,
      <<"adjacent_forbidden", "isolated_forbidden">>,
      <<"sum_even", "sum_odd">>, <<"near_center", "far_from_center">> }

\* C7: no returned rule set holds both members of a declared incompatible
\* pair.
C7_NoIncompatiblePair ==
    returned # Null =>
        \A pair \in C7_DeclaredPairs :
            ~(pair[1] \in ReturnedIds /\ pair[2] \in ReturnedIds)

\* four rules were gathered although the shuffle put both sum_even and
\* sum_odd among its first four: one of them was skipped
C7_Witness ==
    /\ selPc = "accepted"
    /\ Len(returned) = 4
    /\ ("sum_even" \in ReturnedIds \/ "sum_odd" \in ReturnedIds)

\* candidate draws made so far by the call
Draws == attempt + (IF selPc = "accepted" THEN 1 ELSE 0)

\* C8: selectRules makes at most maxAttempts candidate draws, always
\* returns a rule set, and returns the fallback when maxAttempts is 0 (or
\* less) or the band is one no candidate can satisfy.
C8_SelectTerminates ==
    /\ [](Draws <= (IF maxAttempts > 0 THEN maxAttempts ELSE 0))
    /\ <>(returned # Null /\ Len(returned) >= 1)
    /\ []((/\ returned # Null
           /\ (maxAttempts <= 0 \/ ~Geq(targetMax, targetMin)))
          => returned = << "sum_even" >>)

\* every one of two attempts failed and the fallback was returned
C8_Witness ==
    /\ selPc = "fallback"
    /\ maxAttempts = 2
    /\ attempt = 2
    /\ returned = << "sum_even" >>

-----------------------------------------------------------------------------
(* Further claims about the Game component (Spec) *)

\* the game state after the step
StNext ==
    [ mode |-> mode', effectPending |-> effectPending', board |-> board',
      rules |-> rules', rotationCount |-> rotationCount',
      pendingPlacement |-> pendingPlacement',
      currentPlayer |-> currentPlayer',
      player1Stones |-> player1Stones', player2Stones |-> player2Stones',
      player1Moves |-> player1Moves', player2Moves |-> player2Moves',
      gameOver |-> gameOver', winner |-> winner', showRules |-> showRules',
      moveHistory |-> moveHistory' ]

\* the step is a reset (New Game, Play Again)
ResetStep ==
    /\ moveHistory' = <<>>
    /\ \E rs \in GameRuleSets : StNext = resetGame(St, rs)

\* the step is the mount effect storing the selected rules
MountStep ==
    /\ effectPending
    /\ \E rs \in GameRuleSets : StNext = initializeGame(St, rs)

\* what the claims call the game's progress: everything but the staged
\* placement, the preview rotation and the rules display
Progress(s) ==
    << s.board, s.player1Stones, s.player2Stones, s.player1Moves,
       s.player2Moves, s.currentPlayer, s.gameOver, s.winner, s.moveHistory >>

\* C11: GameOver is terminal: in a game that is over, a cell click (through
\* the board or straight to the handler), a confirmation (button, click on
\* the pending piece, Enter), a rotation and a cancellation leave the
\* board, the stone and move counters, the current player, the winner and
\* the move log as they are, and a step that changes any of them or leaves
\* GameOver is a reset.
C11_GameOverTerminal ==
    /\ [](gameOver =>
            /\ \A r \in Rows : \A c \in Cols :
                  /\ handleCellClick(St, r, c) = St
                  /\ boardCellClick(St, r, c) = St
            /\ confirmPlacement(St) = St
            /\ \A key \in { "r", "Escape", "Enter" } :
                  Progress(handleKeyDown(St, key)) = Progress(St)
            /\ \A d \in RotateSteps :
                  /\ Progress(rotatePending(St, d)) = Progress(St)
                  /\ Progress(rotateOrientation(St, d)) = Progress(St)
            /\ Progress(cancelPlacement(St)) = Progress(St))
    /\ [][ (gameOver /\ Progress(StNext) # Progress(St)) => ResetStep ]_vars

\* a duel that player 1 has won, the preview rotated by a key press
C11_Witness ==
    /\ mode = "duel"
    /\ gameOver
    /\ winner = 1
    /\ rotationCount # 0

\* C12: a placement request made while the acting player has no stone left
\* is rejected with the state unchanged (nothing staged, nothing recorded),
\* and no stone counter is ever below 0.
C12_NoStonesRejected ==
    /\ (IF currentPlayer = 1 THEN player1Stones ELSE player2Stones) = 0 =>
          /\ \A r \in Rows : \A c \in Cols :
                /\ handleCellClick(St, r, c) = St
                /\ boardCellClick(St, r, c) = St
          /\ confirmPlacement(St) = St
          /\ handleKeyDown(St, "Enter") = St
    /\ player1Stones >= 0
    /\ player2Stones >= 0

\* a solo game whose player has placed the last stone
C12_Witness ==
    /\ mode = "solo"
    /\ currentPlayer = 1
    /\ player1Stones = 0
    /\ board[0][1] # Null

\* C13: within a game the board only grows: a step that is not a reset
\* keeps every stone where it is, with its orientation.
C13_BoardOnlyGrows ==
    [][ \/ board' = board
        \/ \A r \in Rows : \A c \in Cols :
              board[r][c] # Null => board'[r][c] = board[r][c]
        \/ ResetStep
      ]_vars

\* two legal placements after the opening, both stones on the board
C13_Witness ==
    /\ AttemptsPlayed(St) = 2
    /\ LastMove.legal
    /\ moveHistory[Len(moveHistory) - 1].legal
    /\ board[LastMove.row][LastMove.col] # Null
    /\ board[moveHistory[Len(moveHistory) - 1].row]
            [moveHistory[Len(moveHistory) - 1].col] # Null

\* C14: the move log is append-only within a game: a confirmation appends
\* exactly one record (row, column, orientation, acting player, and the
\* legality result as its legal flag), and a step that is not a reset
\* either leaves the log as it is or appends one record to it.
C14_MoveLogAppendOnly ==
    /\ [](pendingPlacement # Null =>
            LET o == orientationOf(pendingPlacement.rotationCount)
            IN  confirmPlacement(St).moveHistory =
                    moveHistory \o
                    << [ row |-> pendingPlacement.row,
                         col |-> pendingPlacement.col,
                         orientation |-> o,
                         player |-> currentPlayer,
                         legal |-> isMoveLegal(pendingPlacement.row,
                                               pendingPlacement.col, o,
                                               rules, board) ] >>)
    /\ [][ \/ moveHistory' = moveHistory
           \/ /\ Len(moveHistory') = Len(moveHistory) + 1
              /\ SubSeq(moveHistory', 1, Len(moveHistory)) = moveHistory
           \/ ResetStep
      ]_vars

\* a duel in which, after the opening, both players made an attempt, the
\* second of them illegal
C14_Witness ==
    /\ mode = "duel"
    /\ AttemptsPlayed(St) = 2
    /\ LastMove.player # moveHistory[Len(moveHistory) - 1].player
    /\ ~LastMove.legal

\* C15: a confirmed attempt, legal or illegal, raises the acting player's
\* move counter by exactly 1 and leaves the other player's as it is; the
\* stone counters start positive, never increase within a game, and an
\* illegal attempt keeps both of them.
C15_MoveAndStoneCounters ==
    /\ []((moveHistory = <<>> /\ board = createEmptyBoard) =>
              /\ player1Stones = initialStones(mode)
              /\ player2Stones = initialStones(mode)
              /\ initialStones(mode) > 0)
    /\ [][ /\ ConfirmedStep =>
                /\ IF currentPlayer = 1
                   THEN /\ player1Moves' = player1Moves + 1
                        /\ player2Moves' = player2Moves
                   ELSE /\ player2Moves' = player2Moves + 1
                        /\ player1Moves' = player1Moves
                /\ ~moveHistory'[Len(moveHistory')].legal =>
                      /\ player1Stones' = player1Stones
                      /\ player2Stones' = player2Stones
           /\ ~ResetStep =>
                /\ player1Stones' <= player1Stones
                /\ player2Stones' <= player2Stones
      ]_vars

\* a duel in which, after the opening, a legal attempt was followed by an
\* illegal attempt of player 2
C15_Witness ==
    /\ mode = "duel"
    /\ AttemptsPlayed(St) = 2
    /\ moveHistory[Len(moveHistory) - 1].legal
    /\ ~LastMove.legal
    /\ LastMove.player = 2

\* C16: the active rule set is frozen for the lifetime of a game: no cell
\* click, confirmation, cancellation or rotation changes it, and a step
\* that changes it is a reset or the mount effect storing the selection
\* for a game in which no attempt has been confirmed yet.
C16_RulesFrozen ==
    /\ [](/\ \A cell \in ClickCells :
                /\ boardCellClick(St, cell[1], cell[2]).rules = rules
                /\ handleCellClick(St, cell[1], cell[2]).rules = rules
          /\ confirmPlacement(St).rules = rules
          /\ cancelPlacement(St).rules = rules
          /\ \A d \in RotateSteps :
                /\ rotatePending(St, d).rules = rules
                /\ rotateOrientation(St, d).rules = rules
          /\ \A key \in { "r", "Escape", "Enter" } :
                handleKeyDown(St, key).rules = rules)
    /\ [][ rules' # rules =>
             \/ ResetStep
             \/ /\ effectPending /\ ~effectPending'
                /\ moveHistory = <<>> /\ moveHistory' = <<>>
                /\ board = createEmptyBoard /\ board' = createEmptyBoard
                /\ ~gameOver /\ ~gameOver'
      ]_vars

\* a game under three rules with an attempt made after the opening and a
\* placement staged and rotated
C16_Witness ==
    /\ ~effectPending
    /\ Len(rules) = 3
    /\ AttemptsPlayed(St) >= 1
    /\ pendingPlacement # Null
    /\ pendingPlacement.rotationCount # rotationCount

\* every rule set selectRules can gather or fall back to holds 1 to 4 rules
SelectableSizes ==
    /\ \A sh \in Shuffles : \A n \in NumRulesChoices :
          Len(candidate(sh, n)) \in 1..4
    /\ Len(fallbackRules) \in 1..4
    /\ \A rs \in GameRuleSets : Len(rs) \in 1..4

\* C17: the active rule set holds 1 to 4 rules: every candidate gathered
\* from a shuffle holds 1 to 4 rules and the fallback holds 1, so
\* selectRules returns neither an empty set nor more than 4 rules; once the
\* mount effect has run the component's rule set holds 1 to 4 rules, and
\* every confirmed attempt is judged against such a set (never against the
\* empty set of the first render).
C17_RuleCountOneToFour ==
    /\ [](/\ SelectableSizes
          /\ ~effectPending => Len(rules) \in 1..4)
    /\ [][ ConfirmedStep => Len(rules) \in 1..4 ]_vars

\* a new game under the fallback rule set with one attempt confirmed
C17_Witness ==
    /\ rules = fallbackRules
    /\ Len(moveHistory) = 1
    /\ LastMove.player = 1

-----------------------------------------------------------------------------
(* rules.js: getHint.  A text is a sequence of words (the text split at    *)
(* its blanks); the fixed hint texts are one word each.                    *)

\* the description of the catalog's rules
description(id) ==
    CASE id = "even_row" ->
            << "Stones", "in", "even-numbered", "rows", "are", "illegal" >>
      [] id = "odd_row" ->
            << "Stones", "in", "odd-numbered", "rows", "are", "illegal" >>
      [] id = "even_col" ->
            << "Stones", "in", "even-numbered", "columns", "are", "illegal" >>
      [] id = "odd_col" ->
            << "Stones", "in", "odd-numbered", "columns", "are", "illegal" >>
      [] id = "edge_forbidden" ->
            << "Stones", "on", "the", "edge", "are", "illegal" >>
      [] id = "center_forbidden" ->
            << "Stones", "not", "on", "the", "edge", "are", "illegal" >>
      [] id = "corner_forbidden" ->
            << "Stones", "in", "corners", "are", "illegal" >>
      [] id = "top_half" ->
            << "Stones", "in", "top", "half", "(rows", "0-3)", "are",
            "illegal" >>
      [] id = "bottom_half" ->
            << "Stones", "in", "bottom", "half", "(rows", "5-8)", "are",
            "illegal" >>
      [] id = "left_half" ->
            << "Stones", "in", "left", "half", "(cols", "0-3)", "are",
            "illegal" >>
      [] id = "right_half" ->
            << "Stones", "in", "right", "half", "(cols", "5-8)", "are",
            "illegal" >>
      [] id = "main_diagonal" ->
            << "Stones", "on", "the", "main", "diagonal", "(row=col)", "are",
            "illegal" >>
      [] id = "anti_diagonal" ->
            << "Stones", "on", "the", "anti-diagonal", "(row+col=8)", "are",
            "illegal" >>
      [] id = "north_forbidden" ->
            << "Yin-yang", "pointing", "North", "is", "illegal" >>
      [] id = "east_forbidden" ->
            << "Yin-yang", "pointing", "East", "is", "illegal" >>
      [] id = "south_forbidden" ->
            << "Yin-yang", "pointing", "South", "is", "illegal" >>
      [] id = "west_forbidden" ->
            << "Yin-yang", "pointing", "West", "is", "illegal" >>
      [] id = "adjacent_forbidden" ->
            << "Stones", "adjacent", "to", "other", "stones", "are", "illegal"
            >>
      [] id = "isolated_forbidden" ->
            << "Stones", "NOT", "adjacent", "to", "other", "stones", "are",
            "illegal", "(after", "first)" >>
      [] id = "diagonal_neighbor_forbidden" ->
            << "Stones", "diagonally", "adjacent", "to", "other", "stones",
            "are", "illegal" >>
      [] id = "sum_even" ->
            << "Positions", "where", "row+col", "is", "even", "are", "illegal"
            >>
      [] id = "sum_odd" ->
            << "Positions", "where", "row+col", "is", "odd", "are", "illegal"
            >>
      [] id = "product_even" ->
            << "Positions", "where", "row*col", "is", "even", "are", "illegal"
            >>
      [] id = "star_points" ->
            << "Traditional", "Go", "star", "points", "(3,3),", "(3,6),",
            "etc.", "are", "illegal" >>
      [] id = "center_point" ->
            << "The", "center", "point", "(4,4)", "is", "illegal" >>
      [] id = "near_center" ->
            << "Stones", "within", "2", "steps", "of", "center", "are",
            "illegal" >>
      [] id = "far_from_center" ->
            << "Stones", "more", "than", "3", "steps", "from", "center",
            "are", "illegal" >>
      [] id = "middle_row" ->
            << "Row", "4", "(the", "middle)", "is", "illegal" >>
      [] id = "middle_col" ->
            << "Column", "4", "(the", "middle)", "is", "illegal" >>
      [] id = "north_in_north" ->
            << "North-pointing", "stones", "in", "top", "half", "are",
            "illegal" >>
      [] id = "east_on_east" ->
            << "East-pointing", "stones", "in", "right", "half", "are",
            "illegal" >>
      [] id = "edge_orientation" ->
            << "Stones", "on", "edge", "must", "not", "point", "outward" >>

\* text.replace(pattern, replacement) with a string pattern: the first
\* occurrence only.  In every description of the catalog the first
\* occurrence of 'illegal', and of 'are', is a whole word.
RECURSIVE replace(_, _, _)
replace(text, pattern, replacement) ==
    IF text = <<>> THEN <<>>
    ELSE IF Head(text) = pattern THEN replacement \o Tail(text)
    ELSE <<Head(text)>> \o replace(Tail(text), pattern, replacement)

\* id.includes(word), for the words that getHint looks for
idIncludes(id, word) ==
    CASE word = "row" -> id \in { "even_row", "odd_row", "middle_row" }
      [] word = "col" -> id \in { "even_col", "odd_col", "middle_col" }
      [] word = "orientation" -> id \in { "edge_orientation" }
      [] word = "north" -> id \in { "north_forbidden", "north_in_north" }
      [] word = "south" -> id \in { "south_forbidden" }
      [] word = "east" -> id \in { "east_forbidden", "east_on_east" }
      [] word = "west" -> id \in { "west_forbidden" }
      [] word = "adjacent" -> id \in { "adjacent_forbidden" }
      [] word = "neighbor" -> id \in { "diagonal_neighbor_forbidden" }
      [] word = "edge" -> id \in { "edge_forbidden", "edge_orientation" }

\* const hints = { 1: [...], 2: [...], 3: [...] }
hintKeys == { 1, 2, 3 }

\* hints[1]
genericHints ==
    << <<"Consider the geometry of your position...">>,
       <<"The orientation may matter...">>,
       <<"Numbers hold secrets...">>,
       <<"Neighbors can be friends or foes...">>,
       <<"The center is not always the answer...">> >>

\* the element of hints[2]
categoryHint(id) ==
    IF idIncludes(id, "row") THEN <<"Rows have meaning...">>
    ELSE IF idIncludes(id, "col") THEN <<"Columns have meaning...">>
    ELSE IF \/ idIncludes(id, "orientation")
            \/ idIncludes(id, "north")
            \/ idIncludes(id, "south")
            \/ idIncludes(id, "east")
            \/ idIncludes(id, "west")
         THEN <<"Which way do you face?">>
    ELSE IF idIncludes(id, "adjacent") \/ idIncludes(id, "neighbor")
         THEN <<"Mind your neighbors...">>
    ELSE IF idIncludes(id, "edge") THEN <<"Boundaries matter...">>
    ELSE <<"The pattern is there, look deeper...">>

\* the element of hints[3]
paraphrase(id) ==
    replace(replace(description(id), "illegal", <<"significant">>),
            "are", <<"might", "be">>)

\* variant: the three lists are stored one key too high, the generic
\* list wrapping round to key 3
hintsKeysShifted(id, key) ==
    CASE key = 1 -> << categoryHint(id) >>
      [] key = 2 -> << paraphrase(id) >>
      [] key = 3 -> genericHints

hints(id, key) ==
    CASE key = 1 -> genericHints
      [] key = 2 -> << categoryHint(id) >>
      [] key = 3 -> << paraphrase(id) >>

Min(a, b) == IF a <= b THEN a ELSE b

\* the call returns text
Returns(text) == [raised |-> FALSE, value |-> text]

\* the call raises: levelHints.length with levelHints undefined
TypeError == [raised |-> TRUE, value |-> <<>>]

\* the index Math.floor(Math.random() * rules.length) can give (from 1)
RuleDraws(rs) == IF Len(rs) = 0 THEN { 0 } ELSE 1..Len(rs)

\* the index Math.floor(Math.random() * levelHints.length) can give
HintDraws(rs, level, ruleDraw) ==
    IF Len(rs) = 0 \/ Min(level, 3) \notin hintKeys THEN { 0 }
    ELSE 1..Len(hints(rs[ruleDraw], Min(level, 3)))

\* level: the parameter hintLevel
getHint(rs, level, ruleDraw, hintDraw) ==
    IF Len(rs) = 0 THEN Returns(<<"There are no restrictions.">>)
    ELSE LET rule == rs[ruleDraw]
             key == Min(level, 3)
         IN  IF key \notin hintKeys
             THEN TypeError
             ELSE Returns(hints(rule, key)[hintDraw])

-----------------------------------------------------------------------------
(* SpecHint: one call getHint(hRules, hLevel) *)

MaxHintLevel == 5

HintLevels == (-1)..MaxHintLevel

HintRuleSets ==
    { <<>> } \cup { <<a>> : a \in RuleIds }
             \cup { <<a, b>> : a \in PairHeads, b \in RuleIds }

InitHint ==
    /\ GameIdle /\ SelIdle /\ QIdle /\ HintIdle /\ IoIdle /\ FbIdle /\ DragIdle
    /\ hRules \in HintRuleSets
    /\ hLevel \in HintLevels
    /\ hRuleDraw = 0
    /\ hReturned = Null

GetHintCall ==
    /\ hReturned = Null
    /\ \E ruleDraw \in RuleDraws(hRules) :
          \E hintDraw \in HintDraws(hRules, hLevel, ruleDraw) :
              /\ hRuleDraw' = ruleDraw
              /\ hReturned' = getHint(hRules, hLevel, ruleDraw, hintDraw)
    /\ UNCHANGED <<hRules, hLevel>>
    /\ UNCHANGED <<gameVars, selVars, qVars, hintVars, ioVars, fbVars, dragVars>>

NextHint == GetHintCall

SpecHint == InitHint /\ [][NextHint]_vars

\* C19: getHint clamps every out-of-range level to 3: for a level outside
\* {1, 2, 3} (above 3, 0 or negative) the call raises no error and returns,
\* for the same rule draw, what it returns for level 3.
C19_OutOfRangeLevelClampedTo3 ==
    (hReturned # Null /\ hLevel \notin { 1, 2, 3 }) =>
        /\ ~hReturned.raised
        /\ hReturned = getHint(hRules, 3, hRuleDraw, 1)

\* the texts a call getHint(rs, level) can return
HintSet(rs, level) ==
    { getHint(rs, level, ruleDraw, hintDraw).value :
        ruleDraw \in RuleDraws(rs),
        hintDraw \in UNION { HintDraws(rs, level, d) : d \in RuleDraws(rs) } }

NonEmptyRuleSets == HintRuleSets \ { <<>> }

\* C24 as stated: level 3 is the only level whose output depends on the
\* active rules: for levels 1 and 2 the set of texts getHint can return is
\* the same for any two non-empty rule sets.
C24_LevelsOneAndTwoIndependent ==
    (hReturned # Null /\ hRules # <<>> /\ hLevel \in { 1, 2 }) =>
        \A rs2 \in NonEmptyRuleSets :
            HintSet(rs2, hLevel) = HintSet(hRules, hLevel)

\* the six phrases of level 2
CategoryPhrases ==
    { <<"Rows have meaning...">>, <<"Columns have meaning...">>,
      <<"Which way do you face?">>, <<"Mind your neighbors...">>,
      <<"Boundaries matter...">>, <<"The pattern is there, look deeper...">> }

\* C24, amended: level 1 is the only level whose output does not depend on
\* the active rules: for level 1 the set of texts getHint can return is the
\* same for any two non-empty rule sets and holds the text returned; for
\* level 2 the text returned is one of six fixed phrases, and which ones
\* can be returned depends on the rule set, as it does for level 3.
C24_LevelOneOnlyIndependent ==
    (hReturned # Null /\ hRules # <<>>) =>
        /\ hLevel = 1 =>
              \A rs2 \in NonEmptyRuleSets :
                  /\ HintSet(rs2, 1) = HintSet(hRules, 1)
                  /\ hReturned.value \in HintSet(rs2, 1)
        /\ hLevel = 2 =>
              /\ hReturned.value \in CategoryPhrases
              /\ hReturned.value \in HintSet(hRules, 2)
              /\ \E rs2 \in NonEmptyRuleSets :
                    HintSet(rs2, 2) # HintSet(hRules, 2)
        /\ hLevel = 3 =>
              \E rs2 \in NonEmptyRuleSets :
                  HintSet(rs2, 3) # HintSet(hRules, 3)

\* a level 2 call that answered with the phrase of the row rules, which no
\* call on [sum_even] returns
C24_Witness ==
    /\ hReturned # Null
    /\ hLevel = 2
    /\ hRules = << "even_row" >>
    /\ hReturned.value = <<"Rows have meaning...">>
    /\ hReturned.value \notin HintSet(<< "sum_even" >>, 2)

-----------------------------------------------------------------------------
(* Reset (Spec) *)

\* s is the state of a new game of mode m under the rule set rs
NewGame(s, m, rs) ==
    /\ s.board = createEmptyBoard
    /\ s.rules = rs
    /\ s.player1Stones = initialStones(m)
    /\ s.player2Stones = initialStones(m)
    /\ s.player1Moves = 0
    /\ s.player2Moves = 0
    /\ s.currentPlayer = 1
    /\ s.gameOver = FALSE
    /\ s.winner = NoWinner
    /\ s.pendingPlacement = Null
    /\ s.moveHistory = <<>>
    /\ s.mode = m

\* C20: a reset replaces the whole game state, whatever the state it is
\* made in: afterwards the board is empty, the rule set is the one just
\* selected, both stone counters hold the mode's starting count, both move
\* counters are 0, the current player is 1, the game is in progress without
\* a winner, nothing is staged and the move log is empty.
C20_ResetReplacesState ==
    /\ [](\A rs \in GameRuleSets : NewGame(resetGame(St, rs), mode, rs))
    /\ [][ ResetStep =>
             \E rs \in GameRuleSets : NewGame(StNext, mode, rs) ]_vars

\* a new game under a selected rule set while the mount effect has not
\* run yet: the state a reset leaves when it comes first
C20_Witness ==
    /\ effectPending
    /\ rules # <<>>
    /\ NewGame(St, mode, rules)

-----------------------------------------------------------------------------
(* SpecMount: the Game component together with the browser console.  The   *)
(* steps are those of Spec; the mount effect also writes its line, and a   *)
(* game that starts in progress has the line of its mount behind it.       *)

InitMount ==
    /\ SelIdle /\ QIdle /\ HIdle /\ HintIdle /\ FbIdle /\ DragIdle
    /\ \E m \in Modes : \E s \in StartStates(m) :
          /\ Is(s)
          /\ consoleOutput = IF s.effectPending THEN <<>>
                             ELSE << logHiddenRules(s.rules) >>

\* the mount effect: selectRules, setRules, console.log
MountEffect ==
    /\ effectPending
    /\ \E rs \in GameRuleSets :
          /\ BecomesGame(initializeGame(St, rs))
          /\ consoleOutput' = Append(consoleOutput, logHiddenRules(rs))
    /\ UNCHANGED <<selVars, qVars, hVars, hintVars, fbVars, dragVars>>

NextMount ==
    \/ MountEffect
    \/ CellClick
    \/ RotatePendingClick
    \/ DragRotate
    \/ ConfirmClick
    \/ CancelClick
    \/ KeyDown
    \/ ResetClick
    \/ RevealClick

SpecMount == InitMount /\ [][NextMount]_vars

\* C21: the active rule set reaches the player only through the reveal of
\* the game over modal: whenever the rules are shown, or have been written
\* anywhere else, the game is over; and a reset hides them again.
C21_RulesDisclosedOnlyAtGameOver ==
    /\ []((showRules \/ consoleOutput # <<>>) => gameOver)
    /\ [][ResetStep => ~showRules']_vars

-----------------------------------------------------------------------------
(* SpecBoards: one call of isMoveLegal on a board that a game has left     *)

MaxStones == 2

MaxFacing == 1

\* the rules that read the board ("dynamic: true")
NeighborRules ==
    { "adjacent_forbidden", "isolated_forbidden",
      "diagonal_neighbor_forbidden" }

\* variant: isolated_forbidden carries no flag
dynamicWithoutIsolated(id) ==
    id \in { "adjacent_forbidden", "diagonal_neighbor_forbidden" }

\* rule.dynamic
dynamic(id) == id \in NeighborRules

\* every single rule, and a board-blind rule followed by a neighbour rule
BoardRuleSets ==
    { <<a>> : a \in RuleIds } \cup { <<"sum_even", b>> : b \in NeighborRules }

PlayedBoards ==
    { boardWith(cs) : cs \in { x \in SUBSET QueryStoneCells :
                                  Cardinality(x) <= MaxStones } }

InitBoards ==
    /\ GameIdle /\ SelIdle /\ HIdle /\ HintIdle /\ IoIdle /\ FbIdle /\ DragIdle
    /\ qRow \in Rows
    /\ qCol \in Cols
    /\ qOrientation \in Orientations
    /\ qRules \in BoardRuleSets
    /\ qBoard \in PlayedBoards
    /\ qDone = FALSE
    /\ qLegal = FALSE

SpecBoards == InitBoards /\ [][NextLegal]_vars

\* the orientations given to the stones of the compared boards
Facings == 0..MaxFacing

OccupiedCells(b) == { cell \in Rows \X Cols : b[cell[1]][cell[2]] # Null }

\* the orders in which the cells of a set can be played
Orders(cells) ==
    { sq \in [1..Cardinality(cells) -> cells] :
        \A i, j \in DOMAIN sq : i # j => sq[i] # sq[j] }

\* the board after the cells of order are played one after the other on b,
\* the stone on a cell pointing as facing tells
RECURSIVE playOrder(_, _, _)
playOrder(b, order, facing) ==
    IF order = <<>> THEN b
    ELSE playOrder(placeStone(b, Head(order)[1], Head(order)[2],
                              facing[Head(order)]),
                   Tail(order), facing)

\* the orientations of the stones of b
facingOf(b) ==
    [cell \in OccupiedCells(b) |-> b[cell[1]][cell[2]].orientation]

\* every rule of the query and isMoveLegal return on b2 what they return
\* on the query's board
SameResults(b2) ==
    /\ isMoveLegal(qRow, qCol, qOrientation, qRules, b2) = qLegal
    /\ \A i \in 1..Len(qRules) :
          check(qRules[i], qRow, qCol, qOrientation, b2)
            = check(qRules[i], qRow, qCol, qOrientation, qBoard)

\* C22: legality depends on the occupancy snapshot only: on every board
\* with the same occupied cells as the given one, be it reached by another
\* placement order or be its stones oriented differently, each rule's check
\* and isMoveLegal return what they return on the given board.
C22_LegalityDependsOnOccupancyOnly ==
    qDone =>
        /\ \A order \in Orders(OccupiedCells(qBoard)) :
              SameResults(playOrder(createEmptyBoard, order, facingOf(qBoard)))
        /\ \A facing \in [OccupiedCells(qBoard) -> Facings] :
              \E order \in Orders(OccupiedCells(qBoard)) :
                  SameResults(playOrder(createEmptyBoard, order, facing))

\* a call on a board of two stones that a neighbour rule alone rejects;
\* the two placement orders give that board, and stones turned East give
\* another board with the same cells occupied
C22_Witness ==
    /\ qDone
    /\ ~qLegal
    /\ qRules = << "adjacent_forbidden" >>
    /\ Cardinality(OccupiedCells(qBoard)) = 2
    /\ \A order \in Orders(OccupiedCells(qBoard)) :
          playOrder(createEmptyBoard, order, facingOf(qBoard)) = qBoard
    /\ \E facing \in [OccupiedCells(qBoard) -> Facings] :
          \E order \in Orders(OccupiedCells(qBoard)) :
              LET b2 == playOrder(createEmptyBoard, order, facing)
              IN  b2 # qBoard /\ OccupiedCells(b2) = OccupiedCells(qBoard)

-----------------------------------------------------------------------------
(* SpecHintGame: the hints of the Game component (components/Game.jsx).    *)
(* The board is left alone: the steps are the mount effect, Request Hint   *)
(* and New Game.  hRules, hLevel, hRuleDraw and hReturned hold the latest  *)
(* call of getHint.                                                        *)

\* variant: the level of the render is requested again
newLevelStale(level) == Min(level, 3)

\* const newLevel = Math.min(hintLevel + 1, 3)
newLevel(level) == Min(level + 1, 3)

\* disabled={hintLevel >= 3}
hintButtonDisabled == hintLevel >= 3

InitHintGame ==
    /\ GameIdle /\ SelIdle /\ QIdle /\ HIdle /\ HintIdle /\ IoIdle /\ FbIdle /\ DragIdle

\* Request Hint; user events come after the mount effect
RequestHintClick ==
    /\ ~effectPending
    /\ ~hintButtonDisabled
    /\ \E ruleDraw \in RuleDraws(rules) :
          \E hintDraw \in HintDraws(rules, newLevel(hintLevel), ruleDraw) :
              LET answer == getHint(rules, newLevel(hintLevel),
                                    ruleDraw, hintDraw)
              IN  /\ hintLevel' = newLevel(hintLevel)
                  /\ currentHint' = IF answer.raised THEN currentHint
                                    ELSE answer.value
                  /\ hRules' = rules
                  /\ hLevel' = newLevel(hintLevel)
                  /\ hRuleDraw' = ruleDraw
                  /\ hReturned' = answer
    /\ UNCHANGED <<gameVars, selVars, qVars, ioVars, fbVars, dragVars>>

\* New Game: resetGame, the game state being the initial one already
HintResetClick ==
    /\ \E rs \in GameRuleSets : rules' = rs
    /\ hintLevel' = 0
    /\ currentHint' = Null
    /\ UNCHANGED <<mode, effectPending, board, rotationCount,
                   pendingPlacement, currentPlayer, player1Stones,
                   player2Stones, player1Moves, player2Moves, gameOver,
                   winner, showRules, moveHistory>>
    /\ UNCHANGED <<selVars, qVars, hVars, ioVars, fbVars, dragVars>>

NextHintGame ==
    \/ InitializeGame
    \/ RequestHintClick
    \/ HintResetClick

SpecHintGame == InitHintGame /\ [][NextHintGame]_vars

\* what a step may do to the hint level
HintLevelStep ==
    /\ hintLevel' > hintLevel =>
          /\ hintLevel' = hintLevel + 1
          /\ hLevel' = hintLevel'
          /\ hRules' = rules
          /\ ~hReturned'.raised
          /\ currentHint' = hReturned'.value
    /\ hintLevel' = hintLevel => UNCHANGED hVars
    /\ hintLevel' < hintLevel =>
          /\ hintLevel' = 0
          /\ currentHint' = Null
          /\ UNCHANGED hVars

\* C23: within one game the level requested from getHint only grows and
\* stays in 1..3: every call of getHint is made with the level just above
\* the one of the previous request (1, then 2, then 3) and for the game's
\* rules, no request can be made once level 3 is reached, and the level
\* goes back to 0 on a reset only.
C23_HintLevelsInOrder ==
    /\ [](hintLevel \in 0..3)
    /\ [](hReturned # Null => hLevel \in 1..3)
    /\ [](hintLevel >= 3 => ~ENABLED RequestHintClick)
    /\ [][HintLevelStep]_vars

\* the third request of a game has been answered
C23_Witness ==
    /\ hintLevel = 3
    /\ hLevel = 3
    /\ hRules = rules
    /\ hReturned # Null
    /\ currentHint = hReturned.value

-----------------------------------------------------------------------------
(* Neighbour rules and coverage (SpecLegal) *)

boardBlind(id) == id \notin NeighborRules

\* C25: on the empty board every neighbour rule (adjacent_forbidden,
\* isolated_forbidden, diagonal_neighbor_forbidden) reports every cell and
\* orientation as not illegal, so that the coverage the selector computes
\* for a rule set is the coverage of the set without its neighbour rules.
C25_NeighborRulesPassOnEmptyBoard ==
    (qDone /\ qBoard = createEmptyBoard) =>
        /\ \A i \in 1..Len(qRules) :
              qRules[i] \in NeighborRules =>
                  ~check(qRules[i], qRow, qCol, qOrientation, qBoard)
        /\ (qRow = 0 /\ qCol = 0 /\ qOrientation = 0) =>
              calculateLegalPercentage(qRules)
                = calculateLegalPercentage(SelectSeq(qRules, boardBlind))

\* a call on the empty board under [sum_even, isolated_forbidden] that is
\* legal, the rule set covering 40 cells as [sum_even] does
C25_Witness ==
    /\ qDone
    /\ qLegal
    /\ qBoard = createEmptyBoard
    /\ qRules = << "sum_even", "isolated_forbidden" >>
    /\ qRow = 0 /\ qCol = 1 /\ qOrientation = 0
    /\ calculateLegalPercentage(qRules) = Frac(40, 81)

-----------------------------------------------------------------------------
(* The solo stone count (Spec) *)

\* App.jsx, How to Play, Solo Mode: "Place all 15 stones on the board."
howToPlayStones == 15

\* C26: a solo game starts with 15 stones to place, the count the How to
\* Play screen states, and a reset restores the solo counter to 15.
C26_SoloStartsWithFifteen ==
    /\ []((mode = "solo" /\ moveHistory = <<>>) =>
             player1Stones = howToPlayStones)
    /\ [][(ResetStep /\ mode = "solo") =>
             player1Stones' = howToPlayStones]_vars

-----------------------------------------------------------------------------
(* Coverage (SpecLegal) *)

\* the cells of the empty board with an orientation that no rule flags
CoverableCells(rs) ==
    { cell \in Rows \X Cols :
        \E o \in Orientations :
            \A i \in 1..Len(rs) :
                ~check(rs[i], cell[1], cell[2], o, createEmptyBoard) }

\* C27: calculateLegalPercentage(rules) is, for every rule set, the number
\* of cells of the empty board that have at least one of the 4 orientations
\* flagged by no rule of the set, divided by 81; a cell is counted once at
\* most, so the result lies between 0 and 1.
C27_CoverageCountsCoverableCells ==
    (qDone /\ qRow = 0 /\ qCol = 0 /\ qOrientation = 0
           /\ qBoard = createEmptyBoard) =>
        LET pct == calculateLegalPercentage(qRules)
        IN  /\ pct.num = Cardinality(CoverableCells(qRules))
            /\ pct.den = 81
            /\ Geq(pct, Frac(0, 1))
            /\ Leq(pct, Frac(1, 1))

\* a rule set that flags one orientation only of the cells it leaves
\* coverable: each of these 40 cells passes at three orientations
C27_Witness ==
    /\ qDone
    /\ qRow = 0 /\ qCol = 0 /\ qOrientation = 0
    /\ qBoard = createEmptyBoard
    /\ qRules = << "sum_even", "north_forbidden" >>
    /\ calculateLegalPercentage(qRules) = Frac(40, 81)
    /\ isIllegal(qRules, 0, 1, 0)
    /\ ~isIllegal(qRules, 0, 1, 1)
    /\ ~isIllegal(qRules, 0, 1, 2)

-----------------------------------------------------------------------------
(* The fallback (SpecSelect) *)

\* C28: the fallback returned when no attempt succeeds is always the same
\* set of one rule, sum_even: under it a placement is legal exactly when
\* row + col is odd, whatever the orientation and the board, and its
\* coverage of the empty board, 40 cells of 81, lies in the default band
\* 0.25..0.5.
C28_FallbackIsSumEven ==
    selPc = "fallback" =>
        /\ returned = << "sum_even" >>
        /\ \A row \in Rows, col \in Cols, o \in Orientations,
              b \in QueryBoards :
                isMoveLegal(row, col, o, returned, b) <=> (row + col) % 2 = 1
        /\ calculateLegalPercentage(returned) = Frac(40, 81)
        /\ inTargetRange(calculateLegalPercentage(returned),
                         Frac(1, 4), Frac(1, 2))

\* a call with the default band whose attempts are used up: (0, 0) is
\* illegal and (0, 1) legal under what it returned
C28_Witness ==
    /\ selPc = "fallback"
    /\ targetMin = Frac(1, 4) /\ targetMax = Frac(1, 2)
    /\ attempt = maxAttempts
    /\ attempt > 0
    /\ ~isMoveLegal(0, 0, 0, returned, createEmptyBoard)
    /\ isMoveLegal(0, 1, 0, returned, createEmptyBoard)

-----------------------------------------------------------------------------
(* The dynamic flag (SpecBoards) *)

\* C29: the dynamic flag marks exactly the rules that depend on the board:
\* a rule of the catalog that is not marked gives, for a row, column and
\* orientation, the same result on any two boards, and each rule that is
\* marked gives different results on some pair of boards.
C29_DynamicMarksBoardDependence ==
    qDone =>
        \A i \in 1..Len(qRules) :
            /\ ~dynamic(qRules[i]) =>
                  \A b2 \in PlayedBoards :
                      check(qRules[i], qRow, qCol, qOrientation, b2)
                        = check(qRules[i], qRow, qCol, qOrientation, qBoard)
            /\ (/\ dynamic(qRules[i])
                /\ qRow = 0 /\ qCol = 0 /\ qBoard = createEmptyBoard) =>
                  \E row \in Rows, col \in Cols, b2 \in PlayedBoards :
                      check(qRules[i], row, col, qOrientation, b2)
                        # check(qRules[i], row, col, qOrientation, qBoard)

\* a call that isolated_forbidden rejects on a board with a stone and
\* accepts on the empty board, while sum_even answers alike on both
C29_Witness ==
    /\ qDone
    /\ qRules = << "sum_even", "isolated_forbidden" >>
    /\ dynamic("isolated_forbidden")
    /\ ~dynamic("sum_even")
    /\ qBoard # createEmptyBoard
    /\ check("isolated_forbidden", qRow, qCol, qOrientation, qBoard)
    /\ ~check("isolated_forbidden", qRow, qCol, qOrientation,
              createEmptyBoard)
    /\ check("sum_even", qRow, qCol, qOrientation, qBoard)
         = check("sum_even", qRow, qCol, qOrientation, createEmptyBoard)

-----------------------------------------------------------------------------
(* The category of the neighbour rules (SpecHint) *)

\* C30: at level 2 every neighbour rule is put in the neighbour category:
\* when the rule drawn is adjacent_forbidden, isolated_forbidden or
\* diagonal_neighbor_forbidden, getHint returns "Mind your neighbors...".
C30_NeighborRulesGetNeighborPhrase ==
    (/\ hReturned # Null
     /\ hLevel = 2
     /\ hRules # <<>>
     /\ hRules[hRuleDraw] \in NeighborRules) =>
        hReturned = Returns(<<"Mind your neighbors...">>)

-----------------------------------------------------------------------------
(* Orientations (Spec) *)

\* the orientations of the stones on the board
StoneOrientations ==
    { board[cell[1]][cell[2]].orientation : cell \in OccupiedCells(board) }

\* the rotation counts a placement or the preview can have
RotationCounts == (-(MaxRot + MaxDrag))..(MaxRot + MaxDrag)

\* C31: after any sequence of rotations of the preview or of the pending
\* piece, in either direction and by any number of steps, with a negative
\* cumulative count too, the orientation computed from the count, the one
\* given to the legality check, is one of 0, 1, 2, 3 (the count modulo 4),
\* and so is the orientation of every stone on the board and of every
\* record of the move log.
C31_OrientationInRange ==
    /\ StoneOrientations \subseteq Orientations
    /\ \A i \in 1..Len(moveHistory) :
          moveHistory[i].orientation \in Orientations
    /\ orientationOf(rotationCount) \in Orientations
    /\ pendingPlacement # Null =>
          /\ orientationOf(pendingPlacement.rotationCount) \in Orientations
          /\ (pendingPlacement.rotationCount
                 - orientationOf(pendingPlacement.rotationCount)) % 4 = 0
    /\ \A rc \in RotationCounts :
          \A d \in DragSteps \cup RotateSteps :
              /\ orientationOf(rc + d) \in Orientations
              /\ orientationOf(rc + d) = (orientationOf(rc) + d) % 4

\* a stone confirmed after the piece was turned once counter-clockwise
\* from a preview that was never turned: the count was -1, the stone
\* points West
C31_Witness ==
    /\ rotationCount = 0
    /\ AttemptsPlayed(St) >= 1
    /\ pendingPlacement = Null
    /\ moveHistory[Len(moveHistory)].legal
    /\ moveHistory[Len(moveHistory)].orientation = 3
    /\ board[moveHistory[Len(moveHistory)].row]
             [moveHistory[Len(moveHistory)].col] = [orientation |-> 3]

-----------------------------------------------------------------------------
(* Staging (Spec) *)

\* C32: staging has no effect on the game: selecting a cell as pending,
\* moving the pending placement to another empty cell, rotating it (by the
\* buttons, the R key or a drag) and cancelling it leave the board, both
\* stone counters, both move counters, the current player, the phase and
\* the move log unchanged; a step that changes any of them is a
\* confirmation, which adds one record to the log, or a reset.
C32_StagingHasNoGameEffect ==
    /\ [](LET now == Progress(St)
          IN  /\ \A cell \in ClickCells :
                    Progress(handleCellClick(St, cell[1], cell[2])) = now
              /\ \A d \in RotateSteps \cup DragSteps :
                    /\ Progress(rotatePending(St, d)) = now
                    /\ Progress(rotateOrientation(St, d)) = now
              /\ Progress(cancelPlacement(St)) = now
              /\ \A key \in { "r", "Escape" } :
                    Progress(handleKeyDown(St, key)) = now)
    /\ [][ \/ UNCHANGED <<moveHistory, board, player1Stones, player2Stones,
                         player1Moves, player2Moves, currentPlayer, gameOver,
                         winner>>
           \/ ConfirmedStep /\ StNext = confirmPlacement(St)
           \/ ResetStep ]_vars

\* a placement staged after a confirmed attempt, moved off the first cell
\* clicked and turned away from the preview
C32_Witness ==
    /\ AttemptsPlayed(St) >= 1
    /\ pendingPlacement # Null
    /\ pendingPlacement.rotationCount # rotationCount
    /\ <<pendingPlacement.row, pendingPlacement.col>> = <<8, 7>>
    /\ board[0][1] = Null

\* C33: a pending placement, when there is one, targets an empty cell of
\* the current board, the game is in progress and the acting player has
\* at least one stone left; hence a confirmation never writes a stone onto
\* an occupied cell.
C33_PendingTargetsEmptyCell ==
    /\ [](pendingPlacement # Null =>
            /\ board[pendingPlacement.row][pendingPlacement.col] = Null
            /\ ~gameOver
            /\ getCurrentStones(St) >= 1)
    /\ [][ ConfirmedStep =>
             \A cell \in ChangedCells : board[cell[1]][cell[2]] = Null ]_vars

\* in a duel, after a legal placement of player 1, player 2 has staged a
\* placement
C33_Witness ==
    /\ mode = "duel"
    /\ currentPlayer = 2
    /\ AttemptsPlayed(St) >= 1
    /\ LastMove.legal
    /\ board[LastMove.row][LastMove.col] # Null
    /\ pendingPlacement # Null

-----------------------------------------------------------------------------
(* Conservation (Spec) *)

\* the records of the move log judged legal (or illegal)
RecordsJudged(legal) ==
    { i \in 1..Len(moveHistory) : moveHistory[i].legal = legal }

\* the records of the move log of one player
RecordsOf(player) ==
    { i \in 1..Len(moveHistory) : moveHistory[i].player = player }

\* the stones the players have spent
StonesSpent ==
    (initialStones(mode) - player1Stones)
      + (initialStones(mode) - player2Stones)

\* C34: stones are conserved: the number of occupied cells of the board is
\* the number of stones the players have spent (initial count minus
\* remaining, summed over the players) and the number of legal records of
\* the move log; each player's move counter is the number of log records
\* of that player.
C34_StoneConservation ==
    /\ Cardinality(OccupiedCells(board)) = StonesSpent
    /\ Cardinality(OccupiedCells(board))
         = Cardinality(RecordsJudged(TRUE))
    /\ player1Moves = Cardinality(RecordsOf(1))
    /\ player2Moves = Cardinality(RecordsOf(2))

\* a duel in which both players have attempts on the log, one of them
\* judged illegal
C34_Witness ==
    /\ mode = "duel"
    /\ player1Moves >= 1
    /\ player2Moves >= 1
    /\ RecordsJudged(FALSE) # {}
    /\ Cardinality(OccupiedCells(board)) = Len(moveHistory) - 1

-----------------------------------------------------------------------------
(* Turns of a duel (Spec) *)

\* C35: in a duel player 1 makes the first attempt of a game and
\* consecutive records of the move log belong to different players, so
\* player 1's move counter minus player 2's is 0 or 1; while the game is in
\* progress the player to move is the one the log's parity tells.
C35_DuelTurnsAlternate ==
    mode = "duel" =>
        /\ moveHistory # <<>> => moveHistory[1].player = 1
        /\ \A i \in 1..(Len(moveHistory) - 1) :
              moveHistory[i].player # moveHistory[i + 1].player
        /\ player1Moves - player2Moves \in { 0, 1 }
        /\ ~gameOver =>
              currentPlayer = IF Len(moveHistory) % 2 = 0 THEN 1 ELSE 2

\* a new duel of two attempts, the first of them judged illegal
C35_Witness ==
    /\ mode = "duel"
    /\ Len(moveHistory) = 2
    /\ ~moveHistory[1].legal
    /\ moveHistory[1].player = 1
    /\ moveHistory[2].player = 2
    /\ player1Moves = 1 /\ player2Moves = 1

-----------------------------------------------------------------------------
(* The feedback marker (SpecFeedback): the Game together with lastMove and *)
(* the callbacks that confirmPlacement hands to setTimeout.  Every callback *)
(* has the same delay, so they run in the order they were started.  Each   *)
(* pending callback carries a history field, current: TRUE while lastMove  *)
(* is the marker set by the confirmation that started the callback.        *)

MaxTimers == 2

FEEDBACK_MS == 1000

\* the marker set by confirmPlacement for the record it logged
feedback(record) ==
    [row |-> record.row, col |-> record.col,
     orientation |-> record.orientation,
     result |-> IF record.legal THEN "valid" ELSE "invalid"]

\* no pending callback belongs to the marker shown any more
superseded(ts) == [i \in 1..Len(ts) |-> [ts[i] EXCEPT !.current = FALSE]]

\* setTimeout(() => setLastMove(null), 1000)
setTimeout(ts) == Append(superseded(ts), [delay |-> FEEDBACK_MS, current |-> TRUE])

\* the game goes to t through a handler; a handler that ran confirmPlacement
\* also set the marker and started a callback
FeedbackEvent(t) ==
    /\ BecomesGame(t)
    /\ IF Len(t.moveHistory) = Len(moveHistory) + 1
       THEN /\ Len(timers) < MaxTimers
            /\ lastMove' = feedback(t.moveHistory[Len(t.moveHistory)])
            /\ timers' = setTimeout(timers)
       ELSE UNCHANGED fbVars
    /\ UNCHANGED <<selVars, qVars, hVars, hintVars, ioVars, dragVars>>

InitFeedback == Init

FbInitializeGame ==
    /\ effectPending
    /\ \E rs \in GameRuleSets : FeedbackEvent(initializeGame(St, rs))

FbCellClick ==
    \E cell \in ClickCells :
        /\ (/\ pendingPlacement # Null
            /\ pendingPlacement.row = cell[1]
            /\ pendingPlacement.col = cell[2]) => ConfirmAllowed
        /\ FeedbackEvent(boardCellClick(St, cell[1], cell[2]))

FbRotatePending ==
    /\ pendingPlacement # Null
    /\ \E d \in RotateSteps \cup DragSteps :
          /\ WithinRot(rotatePending(St, d))
          /\ FeedbackEvent(rotatePending(St, d))

FbConfirmClick ==
    /\ pendingPlacement # Null
    /\ ConfirmAllowed
    /\ FeedbackEvent(confirmPlacement(St))

FbCancelClick ==
    /\ pendingPlacement # Null
    /\ FeedbackEvent(cancelPlacement(St))

FbKeyDown ==
    \E key \in { "r", "Escape", "Enter" } :
        /\ (key = "Enter" /\ pendingPlacement # Null) => ConfirmAllowed
        /\ WithinRot(handleKeyDown(St, key))
        /\ FeedbackEvent(handleKeyDown(St, key))

\* resetGame: setLastMove(null); the pending callbacks are left alone
FbResetClick ==
    /\ \E rs \in GameRuleSets : BecomesGame(resetGame(St, rs))
    /\ lastMove' = Null
    /\ timers' = superseded(timers)
    /\ UNCHANGED <<selVars, qVars, hVars, hintVars, ioVars, dragVars>>

FbRevealClick ==
    /\ gameOver
    /\ FeedbackEvent([St EXCEPT !.showRules = TRUE])

\* the oldest callback runs: setLastMove(null)
TimerFires ==
    /\ timers # <<>>
    /\ lastMove' = Null
    /\ timers' = superseded(Tail(timers))
    /\ UNCHANGED <<gameVars, selVars, qVars, hVars, hintVars, ioVars, dragVars>>

NextFeedback ==
    \/ FbInitializeGame
    \/ FbCellClick
    \/ FbRotatePending
    \/ FbConfirmClick
    \/ FbCancelClick
    \/ FbKeyDown
    \/ FbResetClick
    \/ FbRevealClick
    \/ TimerFires

SpecFeedback == InitFeedback /\ [][NextFeedback]_vars

\* a step that runs a callback: the game is left alone, one callback fewer
TimerStep == Len(timers') = Len(timers) - 1

\* C36: the feedback marker of a confirmed placement is cleared only by that
\* placement's own timer or by a reset: a callback started by an earlier
\* confirmation, or in a previous game, never clears the marker of a later
\* confirmation.
C36_FeedbackClearedByOwnTimer ==
    [][ (lastMove # Null /\ lastMove' = Null)
          => \/ ResetStep
             \/ TimerStep /\ timers[1].current ]_vars

-----------------------------------------------------------------------------
(* Dragging the pending piece (SpecDrag): the Board's dragState and its    *)
(* three handlers, with the Game that stages the piece and receives        *)
(* onRotatePending.  The pointer's clientX is the handlers' input.         *)

DRAG_THRESHOLD == 40

MaxClientX == 41

ClientXs == 0..MaxClientX

\* Math.floor(a / b) for b > 0
floorDiv(a, b) == a \div b

DragSt ==
    [isDragging |-> isDragging, startX |-> startX,
     accumulatedDelta |-> accumulatedDelta]

BecomesDrag(d) ==
    /\ isDragging' = d.isDragging
    /\ startX' = d.startX
    /\ accumulatedDelta' = d.accumulatedDelta

totalDelta(d, clientX) == d.accumulatedDelta + (clientX - d.startX)

rotationsOf(d, clientX) == floorDiv(totalDelta(d, clientX), DRAG_THRESHOLD)

handleDragStart(d, pending, clientX) ==
    IF pending = Null THEN d
    ELSE [isDragging |-> TRUE, startX |-> clientX, accumulatedDelta |-> 0]

\* the drag state after handleDragMove
handleDragMove(d, clientX) ==
    IF ~d.isDragging \/ rotationsOf(d, clientX) = 0 THEN d
    ELSE [d EXCEPT !.startX = clientX,
                   !.accumulatedDelta =
                       totalDelta(d, clientX)
                         - rotationsOf(d, clientX) * DRAG_THRESHOLD]

handleDragEnd(d) == [d EXCEPT !.isDragging = FALSE]

\* the Board is shown by a Game whose mount effect has run and in which
\* a piece has been staged on the corner of the empty board (a solo game:
\* the handlers of the Board do not read the mode)
InitDrag ==
    /\ SelIdle /\ QIdle /\ HIdle /\ HintIdle /\ IoIdle /\ FbIdle /\ DragIdle
    /\ \E rs \in GameRuleSets :
          Is(handleCellClick(initializeGame(constructed("solo"), rs), 0, 0))

\* mousedown, touchstart
DragStart ==
    \E clientX \in ClientXs :
        /\ BecomesDrag(handleDragStart(DragSt, pendingPlacement, clientX))
        /\ rotations' = 0
        /\ UNCHANGED <<gameVars, selVars, qVars, hVars, hintVars, ioVars,
                       fbVars>>

\* mousemove, touchmove: the steps go to the Game's rotatePending
DragMove ==
    \E clientX \in ClientXs :
        LET emitted == IF isDragging THEN rotationsOf(DragSt, clientX) ELSE 0
            game    == IF emitted = 0 THEN St ELSE rotatePending(St, emitted)
        IN  /\ WithinRot(game)
            /\ BecomesGame(game)
            /\ BecomesDrag(handleDragMove(DragSt, clientX))
            /\ rotations' = emitted
            /\ UNCHANGED <<selVars, qVars, hVars, hintVars, ioVars, fbVars>>

\* mouseup, mouseleave, touchend
DragEnd ==
    /\ BecomesDrag(handleDragEnd(DragSt))
    /\ rotations' = 0
    /\ UNCHANGED <<gameVars, selVars, qVars, hVars, hintVars, ioVars, fbVars>>

NextDrag ==
    \/ CancelClick
    \/ DragStart
    \/ DragMove
    \/ DragEnd

SpecDrag == InitDrag /\ [][NextDrag]_vars

\* the movement the handler measured when it passed steps on: the carried
\* remainder plus the distance from the last step (startX' is the clientX
\* of a handler that emitted)
MeasuredMovement == accumulatedDelta + (startX' - startX)

\* C37: while dragging, one rotation step is emitted per full 40 pixels of
\* horizontal movement in either direction: a movement of less than 40
\* pixels to the left or to the right emits no step, and the carried
\* remainder stays below 40 pixels in magnitude.
C37_StepPerFullThreshold ==
    /\ [](Abs(accumulatedDelta) < DRAG_THRESHOLD)
    /\ [][ rotations' # 0 => Abs(MeasuredMovement) >= DRAG_THRESHOLD ]_vars

-----------------------------------------------------------------------------
(* The star points the Board draws (SpecLegal) *)

\* Board.jsx: the cells that get a star-point marker
starPoints == { <<2, 2>>, <<2, 6>>, <<4, 4>>, <<6, 2>>, <<6, 6>> }

isStarPoint(row, col) == \E p \in starPoints : p[1] = row /\ p[2] = col

\* C38: the star_points rule flags exactly the cells that the board draws
\* as star points: with star_points the only active rule, a placement is
\* judged illegal if and only if isStarPoint(row, col) is true.
C38_StarRuleMatchesDrawnStarPoints ==
    (qDone /\ qRules = << "star_points" >>)
        => (~qLegal <=> isStarPoint(qRow, qCol))

=============================================================================
